---------------------------- MODULE Spec2Model ----------------------------
(***************************************************************************)
(* Generation of JSON Schema documents from the IGC term type hierarchy    *)
(* (getJSONSchemaFromTermTypeHierarchy.js): the compile pass               *)
(* (defineSchemaForTerm) and the relationship pass (linkTermsViaRelation). *)
(*                                                                         *)
(* Strings that the code takes apart (names, cardinality markers) are      *)
(* sequences of one-character strings.  A schema id is the sequence of     *)
(* its '/'-separated tokens, the namespace being the first token.          *)
(***************************************************************************)
EXTENDS Naturals, Sequences, FiniteSets

(***************************************************************************)
(* Characters                                                              *)
(***************************************************************************)
LowerLetters == <<"a", "b", "e", "n", "o", "r", "s", "t", "u", "y">>
UpperLetters == <<"A", "B", "E", "N", "O", "R", "S", "T", "U", "Y">>
Digits == {"0", "1"}

IndexIn(c, s) == CHOOSE i \in 1..Len(s) : s[i] = c
IsLower(c) == \E i \in 1..Len(LowerLetters) : LowerLetters[i] = c
IsUpper(c) == \E i \in 1..Len(UpperLetters) : UpperLetters[i] = c

\* /[a-zA-Z]/
IsLetter(c) == IsLower(c) \/ IsUpper(c)
\* \w
IsWordChar(c) == IsLetter(c) \/ c \in Digits \/ c = "_"
\* [_.\- ]
IsSeparator(c) == c \in {"_", ".", "-", " "}

charToUpperCase(c) == IF IsLower(c) THEN UpperLetters[IndexIn(c, LowerLetters)] ELSE c
charToLowerCase(c) == IF IsUpper(c) THEN LowerLetters[IndexIn(c, UpperLetters)] ELSE c

toUpperCase(s) == [i \in 1..Len(s) |-> charToUpperCase(s[i])]
toLowerCase(s) == [i \in 1..Len(s) |-> charToLowerCase(s[i])]

(***************************************************************************)
(* camelCase (the camelcase package, as formatNameForJSON calls it)        *)
(***************************************************************************)
RECURSIVE TrimLeft(_)
TrimLeft(s) == IF s # <<>> /\ Head(s) = " " THEN TrimLeft(Tail(s)) ELSE s

RECURSIVE TrimRight(_)
TrimRight(s) ==
  IF s # <<>> /\ s[Len(s)] = " " THEN TrimRight(SubSeq(s, 1, Len(s) - 1)) ELSE s

trim(s) == TrimRight(TrimLeft(s))

\* The scan that puts a '-' at every lower-to-upper boundary, and before the
\* last capital of a run of capitals that a lower-case letter follows.
RECURSIVE preserveCamelCase(_, _, _, _, _, _)
preserveCamelCase(str, i, out, isLastCharLower, isLastCharUpper, isLastLastCharUpper) ==
  IF i > Len(str) THEN out
  ELSE LET c == str[i] IN
    IF isLastCharLower /\ IsLetter(c) /\ charToUpperCase(c) = c
      THEN preserveCamelCase(str, i + 1, out \o <<"-", c>>,
                             FALSE, TRUE, isLastCharUpper)
    ELSE IF isLastCharUpper /\ isLastLastCharUpper /\ IsLetter(c)
            /\ charToLowerCase(c) = c
      THEN \* '-' goes before the previous character; c is then seen again
           preserveCamelCase(str, i,
                             SubSeq(out, 1, Len(out) - 1) \o <<"-", out[Len(out)]>>,
                             TRUE, FALSE, isLastCharUpper)
    ELSE preserveCamelCase(str, i + 1, out \o <<c>>,
                           charToLowerCase(c) = c, charToUpperCase(c) = c,
                           isLastCharUpper)

RECURSIVE StripLeadingSeparators(_)
StripLeadingSeparators(s) ==
  IF s # <<>> /\ IsSeparator(Head(s)) THEN StripLeadingSeparators(Tail(s)) ELSE s

\* First index >= i of s that holds no separator (Len(s) + 1 when none).
RECURSIVE RunEnd(_, _)
RunEnd(s, i) == IF i <= Len(s) /\ IsSeparator(s[i]) THEN RunEnd(s, i + 1) ELSE i

\* .replace(/[_.\- ]+(\w|$)/g, (m, p1) => p1.toUpperCase())
RECURSIVE ReplaceSeparatorRuns(_, _)
ReplaceSeparatorRuns(s, i) ==
  IF i > Len(s) THEN <<>>
  ELSE IF ~IsSeparator(s[i]) THEN <<s[i]>> \o ReplaceSeparatorRuns(s, i + 1)
  ELSE LET q == RunEnd(s, i) IN
    IF q > Len(s) THEN <<>>
    ELSE IF IsWordChar(s[q])
      THEN <<charToUpperCase(s[q])>> \o ReplaceSeparatorRuns(s, q + 1)
    ELSE \* the run backtracks to its last '_', the one separator that is a \w
      LET us == {r \in (i + 1)..(q - 1) : s[r] = "_"} IN
      IF us # {}
        THEN LET r == CHOOSE x \in us : \A y \in us : y <= x
             IN <<"_">> \o ReplaceSeparatorRuns(s, r + 1)
        ELSE <<s[i]>> \o ReplaceSeparatorRuns(s, i + 1)

camelCase(input) ==
  LET str == trim(input) IN
  IF Len(str) = 0 THEN <<>>
  ELSE IF Len(str) = 1 THEN toLowerCase(str)
  ELSE IF \A i \in 1..Len(str) : IsLower(str[i]) \/ str[i] \in Digits THEN str
  ELSE LET hasUpperCase == str # toLowerCase(str)
           kept == IF hasUpperCase
                     THEN preserveCamelCase(str, 1, <<>>, FALSE, FALSE, FALSE)
                     ELSE str
       IN ReplaceSeparatorRuns(toLowerCase(StripLeadingSeparators(kept)), 1)

\* name.replace(/[/\(\)]/g, "-")
ReplacePathChars(name) ==
  [i \in 1..Len(name) |-> IF name[i] \in {"/", "(", ")"} THEN "-" ELSE name[i]]

FormatName(name) == camelCase(ReplacePathChars(name))

(***************************************************************************)
(* The catalog's answer: the terms of one generation run                   *)
(***************************************************************************)
\* Identifiers (RIDs) of the terms the term query returns, and one RID the
\* query does not return (a term outside the category given with -l).
Rids == {"r1", "r2", "r3"}
MissingRid == "r0"

\* Display names: "a/b" and "a b" both format to aB, "b" to b, "o" to o.
NameSlash == <<"a", "/", "b">>
NameSpace == <<"a", " ", "b">>
NameB == <<"b">>
NameMissing == <<"o">>
NameR == <<"r">>

\* category_path.items, the innermost category first
PathA == << <<"a">> >>
PathBA == << <<"b">>, <<"a">> >>

\* Values of the custom attribute that marks multiplicity (argv.multipleAttr)
MarkYes == <<"Y", "e", "s">>
MarkTrue == <<"t", "R", "u", "e">>
MarkY == <<"y">>
MarkNo == <<"n", "o">>

\* argv.namespace, one token of every schema id
Namespace == <<"n", "s">>

\* formatNameForJSON on the names of this catalog, computed once
KnownNames == {NameSlash, NameSpace, NameB, NameMissing, NameR, <<"a">>}
FormattedNames == [n \in KnownNames |-> FormatName(n)]
formatNameForJSON(name) ==
  IF name \in KnownNames THEN FormattedNames[name] ELSE FormatName(name)

\* Longest has_a list and longest assigned_terms list of a term
MaxHasA == 2
MaxAssigned == 2

RECURSIVE SeqsOfLen(_, _)
SeqsOfLen(S, n) ==
  IF n = 0 THEN {<<>>}
  ELSE {Append(s, x) : s \in SeqsOfLen(S, n - 1), x \in S}

SeqsUpTo(S, n) == UNION {SeqsOfLen(S, k) : k \in 0..n}

EmptyMap == [n \in {} |-> {}]
Put(m, k, v) == [n \in DOMAIN m \cup {k} |-> IF n = k THEN v ELSE m[n]]
Last(s) == s[Len(s)]

RECURSIVE getDefnPathFromCategoryPath(_)
getDefnPathFromCategoryPath(items) ==
  IF items = <<>> THEN <<>>
  ELSE getDefnPathFromCategoryPath(Tail(items)) \o <<formatNameForJSON(Head(items))>>

\* argv.namespace + path + "/" + name, as its '/'-separated tokens
SchemaIdOf(name, category_path) ==
  <<Namespace>> \o getDefnPathFromCategoryPath(category_path)
                \o <<formatNameForJSON(name)>>

\* A relationship item of the catalog: the related term's _id and _name
Item(rid, names) == [id |-> rid, name |-> names[rid]]
Items(rids, names) == [k \in 1..Len(rids) |-> Item(rids[k], names)]

\* has_types is the catalog's inverse of is_a_type_of
RECURSIVE ChildrenOf(_, _, _)
ChildrenOf(rid, isA, rids) ==
  IF rids = <<>> THEN <<>>
  ELSE (IF \E k \in 1..Len(isA[Head(rids)]) : isA[Head(rids)][k] = rid
          THEN <<Head(rids)>> ELSE <<>>)
       \o ChildrenOf(rid, isA, Tail(rids))

RidOrder == <<"r1", "r2", "r3">>

\* The display name of every RID a relationship item can name
NamesOf(c) ==
  [r \in Rids \cup {MissingRid} |-> IF r = MissingRid THEN NameMissing ELSE c.name[r]]

\* One term as the search returns it, with the jsonSchemaId the caching
\* loop adds to it.  cardinality holds the marker when the term has one.
TermWith(rid, c, names) ==
  [id |-> rid,
   name |-> c.name[rid],
   category_path |-> c.path[rid],
   short_description |-> c.short[rid],
   long_description |-> c.long[rid],
   cardinality |-> c.card[rid],
   has_a |-> Items(c.hasA[rid], names),
   has_types |-> Items(ChildrenOf(rid, c.isA, RidOrder), names),
   is_a_type_of |-> Items(c.isA[rid], names),
   assigned_terms |-> Items(c.assigned[rid], names),
   jsonSchemaId |-> SchemaIdOf(c.name[rid], c.path[rid])]

TermOf(rid, c) == TermWith(rid, c, NamesOf(c))

Fn3(a, b, c) == [r \in Rids |-> IF r = "r1" THEN a ELSE IF r = "r2" THEN b ELSE c]

ShortDescriptions == Fn3("s1", "s2", "")
LongDescriptions == Fn3("", "l2", "")

\* Two terms of one category do not share a display name.
WellNamed(c) ==
  \A r, s \in Rids : r # s /\ c.path[r] = c.path[s] => c.name[r] # c.name[s]

\* Catalogs of containment: r1 contains r2, r3 and the missing term in
\* every combination, r2 and r3 with and without a cardinality marker.
ContainmentCatalogs ==
  {c \in
    { [name |-> Fn3(NameB, n2, n3),
       path |-> Fn3(PathA, p2, PathBA),
       short |-> ShortDescriptions,
       long |-> LongDescriptions,
       card |-> Fn3(<<>>, c2, c3),
       hasA |-> Fn3(h1, <<>>, <<>>),
       isA |-> Fn3(<<>>, <<>>, <<>>),
       assigned |-> Fn3(<<>>, <<>>, <<>>),
       types |-> EmptyMap,
       order |-> o] :
      n2 \in {NameSlash, NameSpace, NameB},
      n3 \in {NameSpace, NameB},
      p2 \in {PathA, PathBA},
      c2 \in {<<>>, <<MarkYes>>, <<MarkTrue>>, <<MarkNo>>},
      c3 \in {<<>>, <<MarkY>>},
      h1 \in SeqsUpTo({"r2", "r3", MissingRid}, MaxHasA) \ {<<>>},
      o \in {<<"r1", "r2", "r3">>, <<"r3", "r2", "r1">>} } :
    WellNamed(c)}

\* Catalogs of taxonomy: r2 and r3 may be types of r1, which may also
\* contain r2, and r1 may have a cached data type.
TaxonomyCatalogs ==
  {c \in
    { [name |-> Fn3(NameB, n2, n3),
       path |-> Fn3(PathA, p2, PathBA),
       short |-> ShortDescriptions,
       long |-> LongDescriptions,
       card |-> Fn3(<<>>, <<>>, <<>>),
       hasA |-> Fn3(h1, <<>>, <<>>),
       isA |-> Fn3(<<>>, t[1], t[2]),
       assigned |-> Fn3(<<>>, <<>>, <<>>),
       types |-> ty,
       order |-> o] :
      n2 \in {NameSlash, NameSpace, NameB},
      n3 \in {NameSpace, NameB},
      p2 \in {PathA, PathBA},
      h1 \in {<<>>, <<"r2">>},
      t \in {<< <<>>, <<>> >>, << <<"r1">>, <<>> >>, << <<"r1">>, <<"r1">> >>},
      ty \in {EmptyMap, [r \in {"r1"} |-> "date"], [r \in {"r1"} |-> "timestamp"],
              [r \in {"r1"} |-> "numeric"], [r \in {"r1"} |-> "integer"]},
      o \in {<<"r1", "r2", "r3">>, <<"r3", "r2", "r1">>} } :
    WellNamed(c)}

\* Catalogs that exercise the relationship pass: r1 associates r2, r3 and
\* the missing term; r3 may be a second association; r2 and r3 may be types
\* of one another (also in a cycle); r1 and r2 may contain terms.
LinkCatalogs ==
  {c \in
    { [name |-> Fn3(NameR, n2, n3),
       path |-> Fn3(PathA, PathBA, PathBA),
       short |-> ShortDescriptions,
       long |-> LongDescriptions,
       card |-> Fn3(<<>>, <<MarkYes>>, <<>>),
       hasA |-> Fn3(h1, h2, <<>>),
       isA |-> Fn3(<<>>, t2, t3),
       assigned |-> Fn3(a1, <<>>, a3),
       types |-> EmptyMap,
       order |-> o] :
      n2 \in {NameSlash, NameB},
      n3 \in {NameSpace, NameB},
      h1 \in {<<>>, <<"r2">>},
      h2 \in {<<>>, <<"r1">>, <<"r3">>},
      t2 \in {<<>>, <<"r3">>, <<"r2">>},
      t3 \in {<<>>, <<"r2">>},
      a1 \in SeqsUpTo({"r2", "r3", MissingRid}, MaxAssigned) \ {<<>>},
      a3 \in {<<>>, <<"r2">>},
      o \in {<<"r1", "r2", "r3">>, <<"r3", "r2", "r1">>} } :
    WellNamed(c)}

(***************************************************************************)
(* State of one generation run                                             *)
(***************************************************************************)
VARIABLES
  hmRidToObject,     \* RID -> term (with its jsonSchemaId)
  hmTermToType,      \* RID -> merged native type of its data classes
  hmProcessedRIDs,   \* RIDs defineSchemaForTerm has emitted a schema for
  hmNameClashCheck,  \* formatted names seen so far
  aTerms,            \* Object.keys(hmRidToObject), in insertion order
  aRelationTerms,    \* RIDs of the terms that have assigned_terms
  schemaFiles,       \* <directory>/<name>.json     : file name -> document
  sidecarFiles,      \* <directory>/<name>.json.igc : file name -> sidecar
  emitted,           \* RID -> the schema defineSchemaForTerm handed to outputSchema
  written,           \* the files the call just made has written
  console,           \* the warnings and errors logged
  pc,                \* "define", "link", "done" or "crashed"
  i,                 \* index of the loop the run is in
  allDCs,            \* the data classes the data class query returned
  fnCall,            \* a function applied on its own: name, argument, results
  loader,            \* a load of a directory of schema files into the catalog
  resolver,          \* a run of the reverse reference resolver
  translator,        \* one JSONSchemaOpenIGC instance and the reads made on it
  session            \* the answers a generation run waits for, and its chain

vars == <<hmRidToObject, hmTermToType, hmProcessedRIDs, hmNameClashCheck, aTerms,
          aRelationTerms, schemaFiles, sidecarFiles, emitted, written, console, pc, i,
          allDCs, fnCall, loader, resolver, translator, session>>

\* What the generation run leaves alone
otherVars == <<allDCs, fnCall, loader, resolver, translator, session>>

NoCall == [fn |-> "none", arg |-> <<>>, results |-> <<>>]
NoResolve == [schema |-> <<>>, allResults |-> <<>>, errAll |-> FALSE, pc |-> "none",
              cache |-> [n \in {} |-> {}], updates |-> <<>>, answered |-> {}]
NoSession == [allTerms |-> <<>>, dataClasses |-> "none", closed |-> FALSE]
NoReads == [igcObj |-> <<>>, calls |-> 0]
NoLoad == [aFiles |-> <<>>, phase |-> "none", read |-> <<>>, pending |-> {},
           created |-> {}, rejected |-> {}, searching |-> {}, found |-> EmptyMap,
           updating |-> {}, updated |-> {}, updateFailed |-> {}, chain |-> "none"]

(***************************************************************************)
(* Documents.  keys holds the optional keys a document has; a key that is  *)
(* absent has its field at the default below.  A $ref of <<>> is null.     *)
(***************************************************************************)
NullRef == <<>>

RefProperty(ref) ==
  [keys |-> {"$ref"}, type |-> "", ref |-> ref, properties |-> EmptyMap]
ArrayProperty(ref) ==
  [keys |-> {"type", "items"}, type |-> "array", ref |-> ref, properties |-> EmptyMap]
ObjectProperty(props) ==
  [keys |-> {"type", "properties"}, type |-> "object", ref |-> NullRef,
   properties |-> props]

hasOwnProperty(obj, key) == key \in obj.keys

\* Retrieve a term object from the cache, by RID: <<term>>, or <<>> for null
getTermFromCache(rid) ==
  IF rid \in DOMAIN hmRidToObject THEN <<hmRidToObject[rid]>> ELSE <<>>

getTermRefFromCache(rid) ==
  LET term == getTermFromCache(rid)
  IN IF term # <<>> THEN term[1].jsonSchemaId ELSE NullRef

getSingularDescription(term) ==
  IF term.long_description # "" THEN term.long_description
  ELSE IF term.short_description # "" THEN term.short_description
  ELSE ""

\* What JavaScript gives for an element or a key that is not there
Undefined == "undefined"

\* typeArray.every(elementTheSame): every element equals typeArray[0]
EveryElementTheSame(typeArray) ==
  \A k \in 1..Len(typeArray) : typeArray[k] = typeArray[1]

\* Simple merge logic: if different types are defined, go with string;
\* typeArray[0] of an empty array is undefined
mergeTypes(typeArray) ==
  IF EveryElementTheSame(typeArray)
    THEN (IF Len(typeArray) > 0 THEN typeArray[1] ELSE Undefined)
    ELSE "string"

\* A variant that hands no type through: only date, timestamp and numeric
\* set one
setJSONSchemaTypeKnownOnly(schema, type) ==
  IF type = "date"
    THEN [schema EXCEPT !.keys = @ \cup {"type", "format"},
                        !.type = "string", !.format = "date"]
  ELSE IF type = "timestamp"
    THEN [schema EXCEPT !.keys = @ \cup {"type", "format"},
                        !.type = "string", !.format = "date-time"]
  ELSE IF type = "numeric"
    THEN [schema EXCEPT !.keys = @ \cup {"type"}, !.type = "number"]
  ELSE schema

\* A variant without the branch for numeric
setJSONSchemaTypeNumericAsIs(schema, type) ==
  IF type = "date"
    THEN [schema EXCEPT !.keys = @ \cup {"type", "format"},
                        !.type = "string", !.format = "date"]
  ELSE IF type = "timestamp"
    THEN [schema EXCEPT !.keys = @ \cup {"type", "format"},
                        !.type = "string", !.format = "date-time"]
  ELSE [schema EXCEPT !.keys = @ \cup {"type"}, !.type = type]

setJSONSchemaTypeFromIGCType(schema, type) ==
  IF type = "date"
    THEN [schema EXCEPT !.keys = @ \cup {"type", "format"},
                        !.type = "string", !.format = "date"]
  ELSE IF type = "timestamp"
    THEN [schema EXCEPT !.keys = @ \cup {"type", "format"},
                        !.type = "string", !.format = "date-time"]
  ELSE IF type = "numeric"
    THEN [schema EXCEPT !.keys = @ \cup {"type"}, !.type = "number"]
  ELSE [schema EXCEPT !.keys = @ \cup {"type"}, !.type = type]

\* schemaId.split(/[\\/]/).pop(): the file of a schema id is named by the
\* id's last token alone
getSchemaFileFromId(schemaId) == Last(schemaId)

\* rObj !== null && rObj.hasOwnProperty(cardinalityCA) && its value, in upper
\* case, is YES, TRUE or Y
IsMultiple(rObj) ==
  /\ rObj # <<>>
  /\ rObj[1].cardinality # <<>>
  /\ toUpperCase(rObj[1].cardinality[1])
       \in {<<"Y", "E", "S">>, <<"T", "R", "U", "E">>, <<"Y">>}

\* The property the loop over has_a makes for one item
HasAProperty(item) ==
  IF IsMultiple(getTermFromCache(item.id))
    THEN ArrayProperty(getTermRefFromCache(item.id))
    ELSE RefProperty(getTermRefFromCache(item.id))

\* schema.properties after the items k.. of has_a are handled, in order
RECURSIVE HasAProperties(_, _, _)
HasAProperties(items, k, props) ==
  IF k > Len(items) THEN props
  ELSE HasAProperties(items, k + 1,
         Put(props, formatNameForJSON(items[k].name), HasAProperty(items[k])))

\* A variant that lists the formatted names, as the property names are
EnumOfFormattedNames(items) == [k \in 1..Len(items) |-> formatNameForJSON(items[k].name)]

EnumOf(items) == [k \in 1..Len(items) |-> items[k].name]

CachedTypeOf(rid) == IF rid \in DOMAIN hmTermToType THEN hmTermToType[rid] ELSE "string"

\* A variant of the type determination that tests has_types before has_a
TypeDeterminationTypesFirst(schema, term) ==
  IF Len(term.has_types) > 0
    THEN setJSONSchemaTypeFromIGCType(
           [schema EXCEPT !.keys = @ \cup {"enum"}, !.enum = EnumOf(term.has_types)],
           CachedTypeOf(term.id))
  ELSE IF Len(term.has_a) > 0
    THEN [schema EXCEPT !.keys = @ \cup {"type", "properties"},
                        !.type = "object",
                        !.properties = HasAProperties(term.has_a, 1, EmptyMap)]
  ELSE setJSONSchemaTypeFromIGCType(schema, CachedTypeOf(term.id))

\* "Type determination" of defineSchemaForTerm
TypeDetermination(schema, term) ==
  IF Len(term.has_a) > 0
    THEN [schema EXCEPT !.keys = @ \cup {"type", "properties"},
                        !.type = "object",
                        !.properties = HasAProperties(term.has_a, 1, EmptyMap)]
  ELSE IF Len(term.has_types) > 0
    THEN setJSONSchemaTypeFromIGCType(
           [schema EXCEPT !.keys = @ \cup {"enum"}, !.enum = EnumOf(term.has_types)],
           CachedTypeOf(term.id))
  ELSE setJSONSchemaTypeFromIGCType(schema, CachedTypeOf(term.id))

\* The schema object defineSchemaForTerm builds for a term it has not processed
SchemaOfTerm(term) ==
  LET schema == [id |-> <<Namespace>>
                          \o getDefnPathFromCategoryPath(term.category_path)
                          \o <<formatNameForJSON(term.name)>>,
                 title |-> formatNameForJSON(term.name),
                 description |-> getSingularDescription(term),
                 keys |-> {},
                 type |-> "", format |-> "", enum |-> <<>>,
                 properties |-> EmptyMap]
      typed == TypeDetermination(schema, term)
  IN IF Len(term.assigned_terms) > 0
       THEN [typed EXCEPT !.keys = @ \cup {"x-relation-object"}]
       ELSE typed

getIdentityForTerm(term) ==
  [k \in 1..Len(term.category_path) |->
     term.category_path[Len(term.category_path) + 1 - k]] \o <<term.name>>

\* addToSidecar: what ties the sidecar to its schema and its term (the
\* passthrough properties, copied unchanged from the term, are left out)
SidecarOfTerm(term, schemaId) ==
  [schema |-> schemaId, identity |-> getIdentityForTerm(term), id |-> term.id]

\* What the calls of getTermFromCache inside defineSchemaForTerm log
CacheMisses(term) ==
  IF Len(term.has_a) > 0
    THEN {[kind |-> "notInCache", rid |-> term.has_a[k].id, name |-> <<>>] :
            k \in {n \in 1..Len(term.has_a) : term.has_a[n].id \notin DOMAIN hmRidToObject}}
    ELSE {}

NameClash(term) ==
  IF formatNameForJSON(term.name) \in hmNameClashCheck
    THEN {[kind |-> "nonUniqueName", rid |-> term.id,
           name |-> formatNameForJSON(term.name)]}
    ELSE {}

\* A variant that never skips
AlreadyProcessedNever(rid) == FALSE

\* Skip duplicate processing
AlreadyProcessed(rid) == rid \in hmProcessedRIDs

NothingWritten == [schemas |-> {}, sidecars |-> {}]

\* outputSidecar(sidecar); outputSchema(schema), and the caches
EmitSchema(term, schema) ==
  /\ console' = console \cup NameClash(term) \cup CacheMisses(term)
  /\ hmNameClashCheck' = hmNameClashCheck \cup {formatNameForJSON(term.name)}
  /\ hmProcessedRIDs' = hmProcessedRIDs \cup {term.id}
  /\ sidecarFiles' = Put(sidecarFiles, getSchemaFileFromId(schema.id),
                         SidecarOfTerm(term, schema.id))
  /\ schemaFiles' = Put(schemaFiles, getSchemaFileFromId(schema.id), schema)
  /\ emitted' = Put(emitted, term.id, schema)
  /\ written' = [schemas |-> {getSchemaFileFromId(schema.id)},
                 sidecars |-> {getSchemaFileFromId(schema.id)}]

defineSchemaForTerm(term) ==
  IF AlreadyProcessed(term.id)
    THEN /\ written' = NothingWritten
         /\ UNCHANGED <<hmProcessedRIDs, hmNameClashCheck, schemaFiles, sidecarFiles,
                        emitted, console>>
    ELSE EmitSchema(term, SchemaOfTerm(term))

readSchema(files, schemaId) == files[getSchemaFileFromId(schemaId)]
outputSchema(files, schema) == Put(files, getSchemaFileFromId(schema.id), schema)

(***************************************************************************)
(* The relationship pass                                                   *)
(***************************************************************************)
\* Longest is_a_type_of chain that does not come back to a term it has seen
MaxChain == Cardinality(Rids)

\* getAncestralTerms: the RIDs on the is_a_type_of chains of a term, in the
\* order the recursion pushes them.  The recursion keeps no visited set: a
\* chain deeper than the number of terms has come back to a term, goes on
\* for ever and ends in the engine's RangeError (overflow).
\* aTerms.push(pRid); aTerms = aTerms.concat(<the ancestors of pRid>)
PushAncestors(pRid, up, rest) ==
  [overflow |-> up.overflow \/ rest.overflow,
   terms |-> <<pRid>> \o up.terms \o rest.terms]

RECURSIVE getAncestralTerms(_, _)
RECURSIVE AncestralItems(_, _, _)
getAncestralTerms(term, depth) ==
  IF term = <<>> THEN [overflow |-> FALSE, terms |-> <<>>]
  ELSE IF depth > MaxChain THEN [overflow |-> TRUE, terms |-> <<>>]
  ELSE AncestralItems(term[1].is_a_type_of, 1, depth)

AncestralItems(items, k, depth) ==
  IF k > Len(items) THEN [overflow |-> FALSE, terms |-> <<>>]
  ELSE PushAncestors(items[k].id,
                     getAncestralTerms(getTermFromCache(items[k].id), depth + 1),
                     AncestralItems(items, k + 1, depth))

InSeq(x, s) == \E k \in 1..Len(s) : s[k] = x

\* Object.keys(hmRelatedRidsToObjectIds): the processed RIDs among the
\* assigned_terms, each once, in the order of their first item
RECURSIVE RelatedRids(_, _, _)
RelatedRids(items, k, acc) ==
  IF k > Len(items) THEN acc
  ELSE RelatedRids(items, k + 1,
         IF items[k].id \in hmProcessedRIDs /\ ~InSeq(items[k].id, acc)
           THEN Append(acc, items[k].id) ELSE acc)

NotProcessedWarnings(relation) ==
  {[kind |-> "notProcessed", rid |-> relation.assigned_terms[k].id,
    name |-> formatNameForJSON(relation.assigned_terms[k].name)] :
     k \in {n \in 1..Len(relation.assigned_terms) :
              relation.assigned_terms[n].id \notin hmProcessedRIDs}}

\* The new relationship property: an object holding a copy of the
\* properties of the relationship's own schema, when it has any
RelationProperty(schRelation) ==
  ObjectProperty(IF schRelation # <<>> /\ hasOwnProperty(schRelation[1], "properties")
                   THEN schRelation[1].properties
                   ELSE EmptyMap)

\* The loop over k: a $ref to every related term that is neither the updated
\* term nor one of its ancestors
RECURSIVE AddRefs(_, _, _, _)
AddRefs(props, aRids, k, aInheritedTermRids) ==
  IF k > Len(aRids) THEN props
  ELSE AddRefs(
         IF ~InSeq(aRids[k], aInheritedTermRids)
           THEN LET otherObjId == getTermRefFromCache(aRids[k])
                IN Put(props, Last(otherObjId), RefProperty(otherObjId))
           ELSE props,
         aRids, k + 1, aInheritedTermRids)

\* The first part of a round of the loop over j: schUpdate with the
\* relationship property, unless it already has a property of that name
WithRelationProperty(schUpdate, relnName, schRelation) ==
  IF ~hasOwnProperty(schUpdate, "properties")
    THEN [schUpdate EXCEPT !.keys = @ \cup {"type", "properties"},
                           !.type = "object",
                           !.properties = Put(EmptyMap, relnName,
                                              RelationProperty(schRelation))]
  ELSE IF relnName \notin DOMAIN schUpdate.properties
    THEN [schUpdate EXCEPT !.properties = Put(@, relnName,
                                              RelationProperty(schRelation))]
  ELSE schUpdate

LinkWarnings(schUpdate, relnName, rtRid) ==
  IF ~hasOwnProperty(schUpdate, "properties")
    THEN {[kind |-> "notObject", rid |-> rtRid, name |-> relnName]}
  ELSE IF relnName \in DOMAIN schUpdate.properties
    THEN {[kind |-> "alreadyHasProperty", rid |-> rtRid, name |-> relnName]}
  ELSE {}

\* A variant that replaces a property that already has the relationship's
\* name by a new relationship property
UpdateRelatedClobbers(files, relnName, schRelation, aRids, rtRid, schUpdate, ancestral) ==
  IF ancestral.overflow
    THEN [files |-> files, crashed |-> TRUE, written |-> {},
          console |-> LinkWarnings(schUpdate, relnName, rtRid)]
  ELSE IF ~hasOwnProperty(schUpdate, "properties")
          \/ relnName \notin DOMAIN schUpdate.properties
    THEN [files |-> outputSchema(files,
                      [WithRelationProperty(schUpdate, relnName, schRelation)
                         EXCEPT !.properties[relnName].properties =
                           AddRefs(@, aRids, 1, Append(ancestral.terms, rtRid))]),
          crashed |-> FALSE, written |-> {getSchemaFileFromId(schUpdate.id)},
          console |-> LinkWarnings(schUpdate, relnName, rtRid)]
  ELSE [files |-> outputSchema(files,
                    [schUpdate EXCEPT !.properties[relnName] =
                                        RelationProperty(schRelation)]),
        crashed |-> FALSE, written |-> {getSchemaFileFromId(schUpdate.id)},
        console |-> LinkWarnings(schUpdate, relnName, rtRid)]

\* The rest of the round, schUpdate being the schema read and ancestral the
\* result of getAncestralTerms on the related term
UpdateRelated(files, relnName, schRelation, aRids, rtRid, schUpdate, ancestral) ==
  IF ancestral.overflow
    THEN [files |-> files, crashed |-> TRUE, written |-> {},
          console |-> LinkWarnings(schUpdate, relnName, rtRid)]
  ELSE IF ~hasOwnProperty(schUpdate, "properties")
          \/ relnName \notin DOMAIN schUpdate.properties
    THEN [files |-> outputSchema(files,
                      [WithRelationProperty(schUpdate, relnName, schRelation)
                         EXCEPT !.properties[relnName].properties =
                           AddRefs(@, aRids, 1, Append(ancestral.terms, rtRid))]),
          crashed |-> FALSE, written |-> {getSchemaFileFromId(schUpdate.id)},
          console |-> LinkWarnings(schUpdate, relnName, rtRid)]
  ELSE [files |-> outputSchema(files, schUpdate), crashed |-> FALSE,
        written |-> {getSchemaFileFromId(schUpdate.id)},
        console |-> LinkWarnings(schUpdate, relnName, rtRid)]

\* One round of the loop over j: read the schema of related term rtRid,
\* give it the relationship property and the $refs, write it back
LinkOne(files, relnName, schRelation, aRids, rtRid) ==
  UpdateRelated(files, relnName, schRelation, aRids, rtRid,
                readSchema(files, getTermRefFromCache(rtRid)),
                getAncestralTerms(getTermFromCache(rtRid), 1))

RECURSIVE LinkLoop(_, _, _, _, _, _, _)
LinkRest(files, wrote, log, relnName, schRelation, aRids, j, one) ==
  IF one.crashed
    THEN [files |-> files, crashed |-> TRUE, written |-> wrote,
          console |-> log \cup one.console]
    ELSE LinkLoop(one.files, wrote \cup one.written, log \cup one.console, relnName,
                  schRelation, aRids, j + 1)

LinkLoop(files, wrote, log, relnName, schRelation, aRids, j) ==
  IF j > Len(aRids)
    THEN [files |-> files, crashed |-> FALSE, written |-> wrote, console |-> log]
  ELSE LinkRest(files, wrote, log, relnName, schRelation, aRids, j,
                LinkOne(files, relnName, schRelation, aRids, aRids[j]))

\* argv.namespace + relnPath + "/" + relnName
RelationSchemaId(relation) ==
  <<Namespace>> \o getDefnPathFromCategoryPath(relation.category_path)
                \o <<formatNameForJSON(relation.name)>>

\* The result of linkTermsViaRelation(relation) on the schema files
linkTermsViaRelation(relation) ==
  LinkLoop(schemaFiles, {}, NotProcessedWarnings(relation),
           formatNameForJSON(relation.name),
           IF relation.id \in hmProcessedRIDs
             THEN <<readSchema(schemaFiles, RelationSchemaId(relation))>>
             ELSE <<>>,
           RelatedRids(relation.assigned_terms, 1, <<>>), 1)

(***************************************************************************)
(* The run: getAllTerms, after the terms are cached                        *)
(***************************************************************************)
\* A variant that leaves the loop after its first element
TermsLoopEndsAfterFirst(k) == k >= 1

\* The loop over aTerms ends after its last element
TermsLoopEnds(k) == k >= Len(aTerms)

\* b) process all terms: defineSchemaForTerm(getTermFromCache(aTerms[i]))
ProcessTerm ==
  /\ pc = "define"
  /\ i <= Len(aTerms)
  /\ defineSchemaForTerm(hmRidToObject[aTerms[i]])
  /\ IF TermsLoopEnds(i)
       THEN pc' = (IF aRelationTerms = <<>> THEN "done" ELSE "link") /\ i' = 1
       ELSE pc' = pc /\ i' = i + 1
  /\ UNCHANGED <<hmRidToObject, hmTermToType, aTerms, aRelationTerms, otherVars>>

\* c) add the relations: linkTermsViaRelation(getTermFromCache(aRelationTerms[i]))
Linked(r) ==
  /\ schemaFiles' = r.files
  /\ written' = [schemas |-> r.written, sidecars |-> {}]
  /\ console' = console \cup r.console
  /\ IF r.crashed THEN pc' = "crashed" /\ i' = i
     ELSE IF i = Len(aRelationTerms) THEN pc' = "done" /\ i' = i + 1
     ELSE pc' = pc /\ i' = i + 1

ProcessRelation ==
  /\ pc = "link"
  /\ i <= Len(aRelationTerms)
  /\ Linked(linkTermsViaRelation(hmRidToObject[aRelationTerms[i]]))
  /\ UNCHANGED <<hmRidToObject, hmTermToType, hmProcessedRIDs, hmNameClashCheck,
                 aTerms, aRelationTerms, sidecarFiles, emitted, otherVars>>

IsRelation(term) == Len(term.assigned_terms) > 0

RECURSIVE RelationTermsOf(_, _)
RelationTermsOf(order, c) ==
  IF order = <<>> THEN <<>>
  ELSE (IF Len(c.assigned[Head(order)]) > 0 THEN <<Head(order)>> ELSE <<>>)
       \o RelationTermsOf(Tail(order), c)

\* The state after step a) of getAllTerms has cached the terms of catalog c,
\* which the search returned in the order c.order
Cached(c, order) ==
  /\ hmRidToObject = [r \in Rids |-> TermOf(r, c)]
  /\ hmTermToType = c.types
  /\ hmProcessedRIDs = {}
  /\ hmNameClashCheck = {}
  /\ aTerms = order
  /\ aRelationTerms = RelationTermsOf(order, c)
  /\ schemaFiles = EmptyMap
  /\ sidecarFiles = EmptyMap
  /\ emitted = EmptyMap
  /\ written = NothingWritten
  /\ console = {}
  /\ pc = "define"
  /\ i = 1
  /\ allDCs = <<>>
  /\ fnCall = NoCall
  /\ loader = NoLoad
  /\ resolver = NoResolve
  /\ translator = NoReads
  /\ session = NoSession

Catalogs == ContainmentCatalogs \cup TaxonomyCatalogs \cup LinkCatalogs

Init == \E c \in Catalogs : Cached(c, c.order)

Next == ProcessTerm \/ ProcessRelation

Spec == Init /\ [][Next]_vars

(***************************************************************************)
(* The relationship pass run again: linkTermsViaRelation called once more  *)
(* for a relation, after step c) has ended                                 *)
(***************************************************************************)
InitRelink == \E c \in LinkCatalogs : Cached(c, c.order)

LinkAgain ==
  /\ pc = "done"
  /\ \E k \in 1..Len(aRelationTerms) :
       LET r == linkTermsViaRelation(hmRidToObject[aRelationTerms[k]]) IN
       /\ schemaFiles' = r.files
       /\ written' = [schemas |-> r.written, sidecars |-> {}]
       /\ console' = console \cup r.console
       /\ pc' = IF r.crashed THEN "crashed" ELSE pc
  /\ UNCHANGED <<hmRidToObject, hmTermToType, hmProcessedRIDs, hmNameClashCheck,
                 aTerms, aRelationTerms, sidecarFiles, emitted, i, otherVars>>

NextRelink == ProcessTerm \/ ProcessRelation \/ LinkAgain

SpecRelink == InitRelink /\ [][NextRelink]_vars

(***************************************************************************)
(* The same steps driven by any sequence of calls of defineSchemaForTerm,  *)
(* a term possibly more than once, before the relations are added          *)
(***************************************************************************)
MaxCalls == 3

ReplayCatalogs ==
  {c \in TaxonomyCatalogs : c.order = RidOrder /\ c.types = EmptyMap}
  \cup {c \in LinkCatalogs : /\ c.order = RidOrder
                             /\ c.assigned["r1"] = <<"r2", "r3">>
                             /\ c.isA["r2"] = <<>> /\ c.isA["r3"] = <<>>}

InitReplay ==
  \E c \in ReplayCatalogs : \E calls \in SeqsUpTo(Rids, MaxCalls) \ {<<>>} :
    Cached(c, calls)

SpecReplay == InitReplay /\ [][Next]_vars

(***************************************************************************)
(* The helper functions of the generator applied on their own              *)
(***************************************************************************)
\* The state of a generator that has cached nothing, at position p
NoRunAt(p) ==
  /\ hmRidToObject = EmptyMap
  /\ hmTermToType = EmptyMap
  /\ hmProcessedRIDs = {}
  /\ hmNameClashCheck = {}
  /\ aTerms = <<>>
  /\ aRelationTerms = <<>>
  /\ schemaFiles = EmptyMap
  /\ sidecarFiles = EmptyMap
  /\ emitted = EmptyMap
  /\ written = NothingWritten
  /\ console = {}
  /\ pc = p
  /\ i = 1

runVars == <<hmRidToObject, hmTermToType, hmProcessedRIDs, hmNameClashCheck, aTerms,
             aRelationTerms, schemaFiles, sidecarFiles, emitted, written, console,
             pc, i>>

\* Values of data_type_filter_elements_enum
TypeTags == {"date", "timestamp", "numeric", "string", "boolean"}

\* Longest list of type tags merged, longest name formatted
MaxTypes == 3
MaxNameLen == 4

\* Characters of the names formatted
NameChars == {"a", "B", "1", "/", "(", ")", " ", "_"}

\* The schema object setJSONSchemaTypeFromIGCType is handed
UntypedSchema ==
  [id |-> <<Namespace, <<"x">>>>, title |-> <<"x">>, description |-> "",
   keys |-> {}, type |-> "", format |-> "", enum |-> <<>>, properties |-> EmptyMap]

InitFunctions ==
  /\ NoRunAt("idle")
  /\ allDCs = <<>>
  /\ loader = NoLoad
  /\ resolver = NoResolve
  /\ translator = NoReads
  /\ session = NoSession
  /\ \/ \E typeArray \in SeqsUpTo(TypeTags, MaxTypes) :
          fnCall = [fn |-> "mergeTypes", arg |-> typeArray, results |-> <<>>]
     \/ \E type \in TypeTags :
          fnCall = [fn |-> "setJSONSchemaTypeFromIGCType", arg |-> <<type>>,
                    results |-> <<>>]
     \/ \E name \in SeqsUpTo(NameChars, MaxNameLen) :
          fnCall = [fn |-> "formatNameForJSON", arg |-> name, results |-> <<>>]

\* mergeTypes of the argument, then mergeTypes of two copies of the result
ApplyMergeTypes ==
  /\ fnCall.fn = "mergeTypes"
  /\ Len(fnCall.results) < 2
  /\ fnCall' = [fnCall EXCEPT !.results =
                  Append(@, mergeTypes(IF Len(@) = 0 THEN fnCall.arg
                                       ELSE <<@[1], @[1]>>))]
  /\ UNCHANGED <<runVars, allDCs, loader, resolver, translator, session>>

ApplySetType ==
  /\ fnCall.fn = "setJSONSchemaTypeFromIGCType"
  /\ Len(fnCall.results) < 1
  /\ fnCall' = [fnCall EXCEPT !.results =
                  Append(@, setJSONSchemaTypeFromIGCType(UntypedSchema, fnCall.arg[1]))]
  /\ UNCHANGED <<runVars, allDCs, loader, resolver, translator, session>>

\* formatNameForJSON of the argument, then of the result
ApplyFormatName ==
  /\ fnCall.fn = "formatNameForJSON"
  /\ Len(fnCall.results) < 2
  /\ fnCall' = [fnCall EXCEPT !.results =
                  Append(@, formatNameForJSON(IF Len(@) = 0 THEN fnCall.arg
                                              ELSE @[1]))]
  /\ UNCHANGED <<runVars, allDCs, loader, resolver, translator, session>>

NextFunctions == ApplyMergeTypes \/ ApplySetType \/ ApplyFormatName

SpecFunctions == InitFunctions /\ [][NextFunctions]_vars

(***************************************************************************)
(* Step 1: the data classes are cached, each assigned term with the merge  *)
(* of the native types of its classes                                      *)
(***************************************************************************)
\* Most data classes the query returns
MaxClasses == 2

\* data_type_filter_elements_enum and assigned_to_terms of a data class
DataClasses ==
  [types : {<<>>, <<"date">>, <<"numeric">>, <<"date", "date">>, <<"date", "numeric">>},
   assigned_to_terms : {<<>>, <<"r1">>, <<"r2">>, <<"r1", "r2">>}]

\* The inner loop over assigned_to_terms.  For a term cached before,
\* types.push(...) returns the new length of types, and mergeTypes calls
\* every() on that number: a TypeError
RECURSIVE CacheAssignedTerms(_, _, _, _)
CacheAssignedTerms(cache, types, assigned, j) ==
  IF cache.thrown \/ j > Len(assigned) THEN cache
  ELSE LET ridTerm == assigned[j] IN
    IF ridTerm \in DOMAIN cache.map
      THEN [cache EXCEPT !.thrown = TRUE]
      ELSE CacheAssignedTerms([cache EXCEPT !.map = Put(@, ridTerm, mergeTypes(types))],
                              types, assigned, j + 1)

\* The outer loop over allDCs
RECURSIVE CacheDataClasses(_, _, _)
CacheDataClasses(cache, dcs, k) ==
  IF cache.thrown \/ k > Len(dcs) THEN cache
  ELSE CacheDataClasses(
         CacheAssignedTerms(cache, dcs[k].types, dcs[k].assigned_to_terms, 1),
         dcs, k + 1)

InitCache ==
  /\ NoRunAt("cache")
  /\ allDCs \in SeqsUpTo(DataClasses, MaxClasses)
  /\ fnCall = NoCall
  /\ loader = NoLoad
  /\ resolver = NoResolve
  /\ translator = NoReads
  /\ session = NoSession

\* The callback of getAllPages in cacheAllDataClasses
CacheAllDataClasses ==
  /\ pc = "cache"
  /\ LET cache == CacheDataClasses([map |-> hmTermToType, thrown |-> FALSE], allDCs, 1)
     IN /\ hmTermToType' = cache.map
        /\ pc' = IF cache.thrown THEN "crashed" ELSE "cached"
  /\ UNCHANGED <<hmRidToObject, hmProcessedRIDs, hmNameClashCheck, aTerms,
                 aRelationTerms, schemaFiles, sidecarFiles, emitted, written, console,
                 i, otherVars>>

NextCache == CacheAllDataClasses

SpecCache == InitCache /\ [][NextCache]_vars

(***************************************************************************)
(* The two queries of a generation run and the answers of the catalog      *)
(***************************************************************************)
\* The data classes of the runs: one native type each, assigned to r1 or r2
SessionClasses ==
  {dc \in DataClasses : Len(dc.types) = 1 /\ Len(dc.assigned_to_terms) = 1}

\* The catalogs of the runs: r1 contains no term; r2 and r3 are types of r1
\* or not, or are associated by r1
SessionCatalogs == {c \in ReplayCatalogs : c.hasA["r1"] = <<>>}

\* The callback of openSession: both promises are constructed, so both
\* searches are issued, and the chain is set up
InitSession ==
  /\ NoRunAt("open")
  /\ allDCs \in SeqsUpTo(SessionClasses, MaxClasses)
  /\ fnCall = NoCall
  /\ loader = NoLoad
  /\ resolver = NoResolve
  /\ translator = NoReads
  /\ \E c \in SessionCatalogs :
       session = [allTerms |-> <<c>>, dataClasses |-> "requested", closed |-> FALSE]

\* The callback of getAllPages in cacheAllDataClasses, which runs when no
\* other callback does; an exception it throws leaves the promise pending
DataClassesAnswered ==
  /\ session.dataClasses = "requested"
  /\ pc \in {"open", "done", "crashed"}
  /\ LET cache == CacheDataClasses([map |-> hmTermToType, thrown |-> FALSE], allDCs, 1)
     IN /\ hmTermToType' = cache.map
        /\ session' = [session EXCEPT
                         !.dataClasses = IF cache.thrown THEN "thrown" ELSE "resolved"]
  /\ UNCHANGED <<hmRidToObject, hmProcessedRIDs, hmNameClashCheck, aTerms,
                 aRelationTerms, schemaFiles, sidecarFiles, emitted, written, console,
                 pc, i, allDCs, fnCall, loader, resolver, translator>>

\* The callback of getAllPages in getAllTerms, step a): the terms are cached;
\* steps b) and c) follow in the same callback
TermsAnswered ==
  /\ pc = "open"
  /\ session.allTerms # <<>>
  /\ LET c == session.allTerms[1] IN
       /\ hmRidToObject' = [r \in Rids |-> TermOf(r, c)]
       /\ aTerms' = c.order
       /\ aRelationTerms' = RelationTermsOf(c.order, c)
  /\ pc' = "define"
  /\ i' = 1
  /\ session' = [session EXCEPT !.allTerms = <<>>]
  /\ UNCHANGED <<hmTermToType, hmProcessedRIDs, hmNameClashCheck, schemaFiles,
                 sidecarFiles, emitted, written, console, allDCs, fnCall, loader,
                 resolver, translator>>

\* Both promises are resolved: closeSession
CloseSession ==
  /\ session.dataClasses = "resolved"
  /\ pc = "done"
  /\ ~session.closed
  /\ session' = [session EXCEPT !.closed = TRUE]
  /\ UNCHANGED <<runVars, allDCs, fnCall, loader, resolver, translator>>

NextSession ==
  \/ DataClassesAnswered \/ TermsAnswered \/ ProcessTerm \/ ProcessRelation
  \/ CloseSession

SpecSession == InitSession /\ [][NextSession]_vars


(***************************************************************************)
(* JSONSchemaOpenIGC: a schema document translated into asset nodes.       *)
(* An asset type is held without its '$JSON_Schema-' prefix, a parent type *)
(* without its '$'; the id "xt" + n is held as n.  A schema id is its      *)
(* characters; a path is its segments.                                     *)
(***************************************************************************)
\* JavaScript's null
JSNull == "(null)"

\* A variant of the table that takes an array for an object
getIGCTypeArrayAsObject(schemaType) ==
  IF schemaType \in {"object", "array"} THEN "JSObject"
  ELSE IF schemaType \in {"string", "integer", "number", "boolean", "null"}
    THEN "JSPrimitive"
  ELSE JSNull

getIGCTypeForSchemaType(schemaType) ==
  IF schemaType = "object" THEN "JSObject"
  ELSE IF schemaType = "array" THEN "JSArray"
  ELSE IF schemaType \in {"string", "integer", "number", "boolean", "null"}
    THEN "JSPrimitive"
  ELSE JSNull

commonObjAttributes ==
  {"name", "short_description", "$id", "$format", "$default", "$enum", "$readOnly",
   "$example", "$ref", "$xml_name", "$xml_namespace", "$xml_prefix", "$xml_attribute",
   "$xml_wrapped"}

\* _igcTypeToKnownAttrs.hasOwnProperty(igcType)
HasKnownIGCAttributes(igcType) == igcType \in {"JSObject", "JSArray", "JSPrimitive"}

\* The known attributes of an asset type, or null for any other value
getKnownIGCAttributes(igcType) ==
  IF igcType = "JSObject"
    THEN commonObjAttributes
         \cup {"$discriminator", "$maxProperties", "$minProperties", "$required"}
  ELSE IF igcType = "JSArray"
    THEN commonObjAttributes \cup {"$maxItems", "$minItems", "$uniqueItems"}
  ELSE IF igcType = "JSPrimitive"
    THEN commonObjAttributes
         \cup {"$type", "$multipleOf", "$maximum", "$exclusiveMaximum", "$minimum",
               "$exclusiveMinimum", "$maxLength", "$minLength", "$pattern"}
  ELSE JSNull

\* A new JSONSchemaOpenIGC: no asset, _id_gen 0, no identity mapped; thrown
\* is set once a call on it has thrown
NewHandler ==
  [assets |-> <<>>, idGen |-> 0, identities |-> EmptyMap, imports |-> <<>>,
   log |-> {}, thrown |-> FALSE]

mapObjectToNextId(ah, identity) ==
  [ah EXCEPT !.idGen = @ + 1, !.identities = Put(@, identity, ah.idGen + 1)]

\* this._ah.addAsset(...); a root has parent type "" and parent id 0
addAsset(ah, assetType, name, id, attrs, parentType, parentId) ==
  [ah EXCEPT !.assets = Append(@, [assetType |-> assetType, name |-> name, id |-> id,
                                    attrs |-> attrs, parentType |-> parentType,
                                    parentId |-> parentId])]

\* Text longer than 255 characters is cut to 251 characters and "..."
MaxShort == 255
CutAt == 251

\* A variant that also cuts a description of exactly 255 characters
DescribedFrom255(assetObj, description) ==
  IF description >= MaxShort
    THEN Put(Put(assetObj, "short_description", [chars |-> CutAt + 3, cut |-> TRUE]),
             "long_description", [chars |-> description, cut |-> FALSE])
    ELSE Put(assetObj, "short_description", [chars |-> description, cut |-> FALSE])

\* short_description and long_description of a description, a text held as
\* its length
Described(assetObj, description) ==
  IF description > MaxShort
    THEN Put(Put(assetObj, "short_description", [chars |-> CutAt + 3, cut |-> TRUE]),
             "long_description", [chars |-> description, cut |-> FALSE])
    ELSE Put(assetObj, "short_description", [chars |-> description, cut |-> FALSE])

\* idToProcess: the id after the first "//", when it has one
RECURSIVE StripScheme(_)
StripScheme(id) ==
  IF Len(id) < 2 THEN <<>>
  ELSE IF id[1] = "/" /\ id[2] = "/" THEN SubSeq(id, 3, Len(id))
  ELSE StripScheme(Tail(id))

HasDoubleSlash(id) == \E k \in 1..(Len(id) - 1) : id[k] = "/" /\ id[k + 1] = "/"

\* idToProcess.split('/')
RECURSIVE Split(_, _)
Split(s, token) ==
  IF s = <<>> THEN <<token>>
  ELSE IF Head(s) = "/" THEN <<token>> \o Split(Tail(s), <<>>)
  ELSE Split(Tail(s), Append(token, Head(s)))

RECURSIVE HierarchyLoop(_, _, _, _, _)
HierarchyLoop(ah, aTokens, k, aIds, parentId) ==
  IF k > Len(aTokens) - 1 THEN [ah |-> ah, aIds |-> aIds]
  ELSE LET mapped == mapObjectToNextId(ah, aTokens[k])
           hierarchyId == mapped.idGen
       IN HierarchyLoop(
            IF k = 1
              THEN addAsset(mapped, "JSNamespace", aTokens[k], hierarchyId, EmptyMap, "", 0)
            ELSE IF k = 2
              THEN addAsset(mapped, "JSPath", aTokens[k], hierarchyId, EmptyMap,
                            "JSNamespace", parentId)
            ELSE addAsset(mapped, "JSPath", aTokens[k], hierarchyId, EmptyMap,
                          "JSPath", parentId),
            aTokens, k + 1, Append(aIds, hierarchyId), hierarchyId)

createContainmentHierarchyObjects(ah, schemaId) ==
  HierarchyLoop(ah,
                Split(IF HasDoubleSlash(schemaId) THEN StripScheme(schemaId) ELSE schemaId,
                      <<>>),
                1, <<>>, 0)

Has(obj, key) == \E k \in 1..Len(obj.keys) : obj.keys[k] = key

\* propertyObj[key]
ValueOf(obj, key) ==
  IF key = "type" THEN obj.type ELSE IF key = "$ref" THEN obj.ref ELSE "value of " \o key

\* The loop over Object.keys(propertyObj).  indexOf is called on what
\* getKnownIGCAttributes returns: a TypeError when that is null
RECURSIVE PropertyKeyLoop(_, _, _, _, _)
PropertyKeyLoop(st, obj, path, propertyTypeIGC, k) ==
  IF st.thrown \/ k > Len(obj.keys) THEN st
  ELSE LET key == obj.keys[k] IN
    PropertyKeyLoop(
      IF key = "description"
        THEN [st EXCEPT !.assetObj = Described(@, obj.description)]
      ELSE IF key \in {"properties", "title", "items"} THEN st
      ELSE IF key = "example"
        THEN [st EXCEPT !.assetObj = Put(@, "$example", ValueOf(obj, key))]
      ELSE IF ~HasKnownIGCAttributes(propertyTypeIGC)
        THEN [st EXCEPT !.thrown = TRUE]
      ELSE IF ("$" \o key) \in getKnownIGCAttributes(propertyTypeIGC)
        THEN [st EXCEPT !.assetObj = Put(@, "$" \o key, ValueOf(obj, key))]
      ELSE IF key = "$ref"
        THEN [st EXCEPT !.assetObj = Put(@, key, ValueOf(obj, key))]
      ELSE IF key # "type"
        THEN [st EXCEPT !.log = @ \cup {[unhandled |-> key, of |-> path]}]
      ELSE st,
      obj, path, propertyTypeIGC, k + 1)

\* The loop over Object.keys(items)
RECURSIVE ItemKeyLoop(_, _, _, _)
ItemKeyLoop(st, items, path, k) ==
  IF k > Len(items.keys) THEN st
  ELSE LET key == items.keys[k] IN
    ItemKeyLoop(
      IF key = "type"
        THEN [st EXCEPT !.arrayItemTypeIGC = getIGCTypeForSchemaType(items.type),
                        !.bObject = (getIGCTypeForSchemaType(items.type) = "JSObject")]
      ELSE IF key = "$ref"
        THEN [st EXCEPT !.assetObj = Put(@, "$ref", items.ref),
                        !.arrayItemTypeIGC = "JSObject"]
      ELSE IF key # "properties"
        THEN [st EXCEPT !.log = @ \cup {[unhandled |-> key, of |-> path]}]
      ELSE st,
      items, path, k + 1)

RECURSIVE translateProperties(_, _, _, _, _, _)
RECURSIVE translatePropertyKeys(_, _, _, _, _, _)
RECURSIVE translateArrayItems(_, _, _, _, _)

\* properties is the map in the order of its keys: entries [title, obj]
translateProperties(ah, properties, k, parentPath, parentType, parentId) ==
  IF ah.thrown \/ k > Len(properties) THEN ah
  ELSE translateProperties(
         translatePropertyKeys(ah, properties[k].title, parentPath, properties[k].obj,
                               parentType, parentId),
         properties, k + 1, parentPath, parentType, parentId)

translatePropertyKeys(ah, title, parentPath, propertyObj, parentType, parentId) ==
  LET path == parentPath \o <<title>>
      mapped == mapObjectToNextId(ah, path)
      propertyId == mapped.idGen
      propertyTypeIGC ==
        IF Has(propertyObj, "type") THEN getIGCTypeForSchemaType(propertyObj.type)
        ELSE IF Has(propertyObj, "$ref") THEN "JSObject"
        ELSE ""
      st == PropertyKeyLoop([assetObj |-> Put(EmptyMap, "$id", path), log |-> ah.log,
                             thrown |-> FALSE],
                            propertyObj, path, propertyTypeIGC, 1)
  IN IF st.thrown THEN [mapped EXCEPT !.log = st.log, !.thrown = TRUE]
     ELSE LET added == addAsset([mapped EXCEPT !.log = st.log], propertyTypeIGC, title,
                                propertyId, st.assetObj, parentType, parentId)
              nested == IF Has(propertyObj, "properties")
                          THEN translateProperties(added, propertyObj.properties, 1,
                                                   path \o <<"properties">>,
                                                   propertyTypeIGC, propertyId)
                          ELSE added
          IN IF Has(propertyObj, "items") /\ ~nested.thrown
               THEN translateArrayItems(nested, propertyObj.items, path,
                                        propertyTypeIGC, propertyId)
               ELSE nested

translateArrayItems(ah, items, parentPath, parentType, parentId) ==
  LET path == parentPath \o <<"items">>
      mapped == mapObjectToNextId(ah, path)
      itemId == mapped.idGen
      st == ItemKeyLoop([assetObj |-> EmptyMap, arrayItemTypeIGC |-> "JSPrimitive",
                         bObject |-> FALSE, log |-> ah.log],
                        items, path, 1)
      added == addAsset([mapped EXCEPT !.log = st.log], st.arrayItemTypeIGC, "items",
                        itemId, st.assetObj, parentType, parentId)
  IN IF st.bObject /\ Has(items, "properties")
       THEN translateProperties(added, items.properties, 1, path \o <<"properties">>,
                                st.arrayItemTypeIGC, itemId)
       ELSE added

\* The loop over the schema-level keys
RECURSIVE SchemaKeyLoop(_, _, _)
SchemaKeyLoop(st, jsSchema, k) ==
  IF k > Len(jsSchema.keys) THEN st
  ELSE LET key == jsSchema.keys[k] IN
    SchemaKeyLoop(
      IF key = "$schema" THEN [st EXCEPT !.assetObj = Put(@, "$schema", "value of $schema")]
      ELSE IF key = "id" THEN [st EXCEPT !.assetObj = Put(@, "$id", jsSchema.id)]
      ELSE IF key = "description"
        THEN [st EXCEPT !.assetObj = Described(@, jsSchema.description)]
      ELSE IF key = "title" THEN [st EXCEPT !.assetObj = Put(@, "name", jsSchema.title)]
      ELSE IF key = "type" THEN [st EXCEPT !.assetObj = Put(@, "$type", jsSchema.type)]
      ELSE IF key = "enum" THEN [st EXCEPT !.assetObj = Put(@, "$enum", "value of enum")]
      ELSE IF key # "properties"
        THEN [st EXCEPT !.aWarnings = Append(@, key)]
      ELSE st,
      jsSchema, k + 1)

\* readSchemaFromFile on the parsed document jsSchema: the handler after the
\* call, and the warnings returned (none when the call throws)
readSchemaFromFile(ah, jsSchema) ==
  LET st == SchemaKeyLoop([assetObj |-> EmptyMap, aWarnings |-> <<>>], jsSchema, 1)
      hierarchy == createContainmentHierarchyObjects(ah, jsSchema.id)
      aHierarchyIds == hierarchy.aIds
      mapped == mapObjectToNextId(hierarchy.ah, jsSchema.id)
      schemaId == mapped.idGen
      name == IF "name" \in DOMAIN st.assetObj THEN st.assetObj["name"] ELSE Undefined
      added == IF Len(aHierarchyIds) > 0
                 THEN addAsset(mapped, "JSchema", name, schemaId, st.assetObj,
                               "JSPath", aHierarchyIds[Len(aHierarchyIds)])
                 ELSE addAsset(mapped, "JSchema", name, schemaId, st.assetObj, "", 0)
      translated == IF Has(jsSchema, "properties")
                      THEN translateProperties(added, jsSchema.properties, 1,
                                               <<"#", "properties">>, "JSchema", schemaId)
                      ELSE added
  IN IF ~Has(jsSchema, "id")
       THEN \* assetObj.$id is undefined, and indexOf is called on it
            [ah |-> [ah EXCEPT !.thrown = TRUE], aWarnings |-> <<>>]
     ELSE IF translated.thrown
       THEN [ah |-> translated, aWarnings |-> <<>>]
       ELSE [ah |-> [translated EXCEPT !.imports =
                       Append(@, [ids |-> <<schemaId>>, partial |-> aHierarchyIds])],
             aWarnings |-> st.aWarnings]

(***************************************************************************)
(* loadJSONSchemaDefinitionsAndSidecars: the first pass over a directory   *)
(***************************************************************************)
\* Most tokens of a schema id, most entries of a nested properties map, most
\* files of a directory of several files
MaxTokens == 4
MaxNested == 2
MaxFiles == 2

NoItems == [keys |-> <<>>, type |-> "", ref |-> "", properties |-> <<>>]

\* A property object without nested properties or items
Leaf(keys, type) ==
  [keys |-> keys, type |-> type, ref |-> "#/definitions/r", description |-> 10,
   properties |-> <<>>, items |-> NoItems]

Leaves ==
  {Leaf(keys, type) :
     keys \in {<<"type">>, <<"type", "format">>, <<"type", "pattern">>,
               <<"type", "x-unknown">>, <<"description", "type">>},
     type \in {"object", "array", "string", "integer", "number", "boolean", "null",
               "date"}}
  \cup {Leaf(keys, "") :
          keys \in {<<>>, <<"$ref">>, <<"$ref", "x-unknown">>, <<"description">>,
                    <<"title">>, <<"format">>, <<"x-unknown">>}}

\* The property objects nested in another, or in items
NestedLeaves ==
  {Leaf(<<"type">>, "string"), Leaf(<<"$ref">>, ""), Leaf(<<"x-unknown">>, "")}

Titles == <<"a", "b", "c", "d">>

\* The properties maps with the objects objs under the first titles
PropertiesOf(objs) == [k \in 1..Len(objs) |-> [title |-> Titles[k], obj |-> objs[k]]]

NestedMaps == {PropertiesOf(objs) : objs \in SeqsUpTo(NestedLeaves, MaxNested) \ {<<>>}}

ItemsObjects ==
  {[keys |-> keys, type |-> type, ref |-> "#/definitions/r", properties |-> <<>>] :
     keys \in {<<>>, <<"type">>, <<"$ref">>, <<"type", "$ref">>, <<"$ref", "type">>,
               <<"x-unknown", "type">>},
     type \in {"object", "string", "date"}}
  \cup {[keys |-> keys, type |-> type, ref |-> "#/definitions/r", properties |-> props] :
          keys \in {<<"type", "properties">>, <<"properties", "type">>,
                    <<"$ref", "properties">>},
          type \in {"object", "string"},
          props \in {m \in NestedMaps : Len(m) = 1}}

\* Property objects with nested properties, with items, or with both
Parents ==
  {[keys |-> <<"type", "properties">>, type |-> type, ref |-> "#/definitions/r",
    description |-> 10, properties |-> props, items |-> NoItems] :
     type \in {"object", "date"}, props \in NestedMaps}
  \cup {[keys |-> <<"type", "items">>, type |-> "array", ref |-> "", description |-> 10,
         properties |-> <<>>, items |-> items] : items \in ItemsObjects}
  \cup {[keys |-> <<"properties", "items">>, type |-> "", ref |-> "", description |-> 10,
         properties |-> props, items |-> items] :
          props \in {m \in NestedMaps : Len(m) = 1},
          items \in {it \in ItemsObjects : it.keys = <<"type", "properties">>}}

\* The id written from its tokens, behind a scheme or not
RECURSIVE Join(_)
Join(tokens) ==
  IF Len(tokens) = 1 THEN tokens[1] ELSE tokens[1] \o <<"/">> \o Join(Tail(tokens))

IdOf(scheme, tokens) ==
  (IF scheme THEN <<"h", ":", "/", "/">> ELSE <<>>) \o Join(tokens)

TokenNames == <<"n", "p", "q", "r", "t">>

\* n tokens, the last one the name of the schema
TokensOf(n) == [k \in 1..n |-> IF k = n THEN <<"s">> ELSE <<TokenNames[k]>>]

BaseKeys == <<"$schema", "id", "title", "description", "type", "properties">>

Doc(keys, id, properties) ==
  [keys |-> keys, id |-> id, title |-> "s", type |-> "object", description |-> 10,
   properties |-> properties]

\* A file of the directory; idTokens are the tokens its document's id was
\* written from
File(ext, doc, idTokens) == [ext |-> ext, doc |-> doc, idTokens |-> idTokens]

DefaultFile(ext, keys, properties) ==
  File(ext, Doc(keys, IdOf(TRUE, TokensOf(3)), properties), TokensOf(3))

\* Documents that differ by their id and by their schema-level keys
IdFiles ==
  {File(".json", Doc(keys, IdOf(scheme, TokensOf(n)), <<>>), TokensOf(n)) :
     keys \in {BaseKeys, <<"id", "title">>, BaseKeys \o <<"format">>,
               BaseKeys \o <<"x-relation-object">>, <<"title", "type">>},
     scheme \in BOOLEAN, n \in 1..MaxTokens}

\* Documents that differ by their properties
PropertyFiles ==
  {DefaultFile(".json", BaseKeys, PropertiesOf(objs)) :
     objs \in {<<leaf>> : leaf \in Leaves \cup Parents}
              \cup {<<leaf, Leaf(<<"type">>, "string")>> : leaf \in Leaves}}

\* The files of the directories of several files
SomeFiles ==
  {DefaultFile(".json", BaseKeys, PropertiesOf(<<Leaf(<<"type">>, "string")>>)),
   DefaultFile(".json", BaseKeys \o <<"format">>, <<>>),
   DefaultFile(".json", BaseKeys, PropertiesOf(<<Leaf(<<"x-unknown">>, "")>>)),
   DefaultFile(".igc", <<>>, <<>>),
   DefaultFile(".txt", <<>>, <<>>)}

\* Lengths of the descriptions, around the length at which one is cut
DescriptionLengths == {0, MaxShort - 1, MaxShort, MaxShort + 1, MaxShort + 45}

\* Documents that differ by the length of their description and of the
\* description of their property
DescribedFiles ==
  {File(".json",
        [Doc(BaseKeys, IdOf(TRUE, TokensOf(3)),
             PropertiesOf(<<[Leaf(<<"description", "type">>, "string")
                               EXCEPT !.description = ofProperty]>>))
           EXCEPT !.description = ofSchema],
        TokensOf(3)) :
     ofSchema \in DescriptionLengths, ofProperty \in DescriptionLengths}

Directories ==
  {<<file>> : file \in IdFiles \cup PropertyFiles \cup DescribedFiles}
  \cup SeqsUpTo(SomeFiles, MaxFiles)

InitLoad ==
  /\ NoRunAt("idle")
  /\ allDCs = <<>>
  /\ fnCall = NoCall
  /\ resolver = NoResolve
  /\ translator = NoReads
  /\ session = NoSession
  /\ \E aFiles \in Directories :
       loader = [NoLoad EXCEPT !.aFiles = aFiles, !.phase = "start"]

\* The executor of one promise of igcCreationPromises
CreationExecutor(file) ==
  IF file.ext = ".json"
    THEN LET r == readSchemaFromFile(NewHandler, file.doc) IN
         [igcObj |-> r.ah, aWarns |-> r.aWarnings,
          outcome |-> IF r.ah.thrown THEN "thrown"
                      ELSE IF Len(r.aWarnings) = 0 THEN "requested"
                      ELSE "skipped: warnings"]
    ELSE [igcObj |-> NewHandler, aWarns |-> <<>>, outcome |-> "skipped: not JSON"]

\* The callback of openSession.  Every executor of igcCreationPromises runs,
\* in the order of the files, and one that throws rejects its promise; then
\* every executor of igcUpdatePromises runs, which issues the search of each
\* .igc file; then the chain of Promise.all is set up
LoadDirectory ==
  /\ loader.phase = "start"
  /\ LET read == [k \in 1..Len(loader.aFiles) |-> CreationExecutor(loader.aFiles[k])]
     IN loader' = [loader EXCEPT
                     !.phase = "loaded",
                     !.read = read,
                     !.pending = {k \in 1..Len(read) : read[k].outcome = "requested"},
                     !.rejected = {k \in 1..Len(read) : read[k].outcome = "thrown"},
                     !.searching = {k \in 1..Len(read) : loader.aFiles[k].ext = ".igc"},
                     !.chain = "creating"]
  /\ UNCHANGED <<runVars, allDCs, fnCall, resolver, translator, session>>

\* createBundleAssets of file k succeeds
AssetsCreated ==
  /\ \E k \in loader.pending :
       loader' = [loader EXCEPT !.pending = @ \ {k}, !.created = @ \cup {k}]
  /\ UNCHANGED <<runVars, allDCs, fnCall, resolver, translator, session>>

\* createBundleAssets of file k fails
CreationFails ==
  /\ \E k \in loader.pending :
       loader' = [loader EXCEPT !.pending = @ \ {k}, !.rejected = @ \cup {k}]
  /\ UNCHANGED <<runVars, allDCs, fnCall, resolver, translator, session>>

\* The search of sidecar k and its pages are answered with the assets the
\* catalog holds by then, and the update of the term is issued
SearchAnswered ==
  /\ \E k \in loader.searching :
       loader' = [loader EXCEPT !.searching = @ \ {k},
                                !.found = Put(@, k, loader.created),
                                !.updating = @ \cup {k}]
  /\ UNCHANGED <<runVars, allDCs, fnCall, resolver, translator, session>>

\* igcrest.update of sidecar k succeeds
UpdateSucceeds ==
  /\ \E k \in loader.updating :
       loader' = [loader EXCEPT !.updating = @ \ {k}, !.updated = @ \cup {k}]
  /\ UNCHANGED <<runVars, allDCs, fnCall, resolver, translator, session>>

\* igcrest.update of sidecar k fails
UpdateFails ==
  /\ \E k \in loader.updating :
       loader' = [loader EXCEPT !.updating = @ \ {k}, !.updateFailed = @ \cup {k}]
  /\ UNCHANGED <<runVars, allDCs, fnCall, resolver, translator, session>>

\* Promise.all(igcCreationPromises) is fulfilled: the chain goes on to
\* Promise.all(igcUpdatePromises)
CreationsFulfilled ==
  /\ loader.chain = "creating"
  /\ loader.pending = {} /\ loader.rejected = {}
  /\ loader' = [loader EXCEPT !.chain = "updating"]
  /\ UNCHANGED <<runVars, allDCs, fnCall, resolver, translator, session>>

\* Promise.all(igcUpdatePromises) is fulfilled: closeSession is called
UpdatesFulfilled ==
  /\ loader.chain = "updating"
  /\ loader.searching = {} /\ loader.updating = {} /\ loader.updateFailed = {}
  /\ loader' = [loader EXCEPT !.chain = "closed"]
  /\ UNCHANGED <<runVars, allDCs, fnCall, resolver, translator, session>>

\* A promise of the Promise.all the chain waits for is rejected:
\* .catch(console.error) ends the chain
ChainCatches ==
  /\ \/ loader.chain = "creating" /\ loader.rejected # {}
     \/ loader.chain = "updating" /\ loader.updateFailed # {}
  /\ loader' = [loader EXCEPT !.chain = "caught"]
  /\ UNCHANGED <<runVars, allDCs, fnCall, resolver, translator, session>>

NextLoad ==
  \/ LoadDirectory \/ AssetsCreated \/ CreationFails
  \/ SearchAnswered \/ UpdateSucceeds \/ UpdateFails
  \/ CreationsFulfilled \/ UpdatesFulfilled \/ ChainCatches

SpecLoad == InitLoad /\ [][NextLoad]_vars

\* Every request to the catalog is answered, and the callback of every
\* settled promise of the chain runs
FairLoad ==
  /\ SpecLoad
  /\ WF_vars(AssetsCreated \/ CreationFails)
  /\ WF_vars(SearchAnswered)
  /\ WF_vars(UpdateSucceeds \/ UpdateFails)
  /\ WF_vars(CreationsFulfilled) /\ WF_vars(UpdatesFulfilled) /\ WF_vars(ChainCatches)

(***************************************************************************)
(* Several calls of readSchemaFromFile on one JSONSchemaOpenIGC instance   *)
(***************************************************************************)
MaxReads == 2

\* The documents read: ids of 1 to MaxTokens tokens, with and without an id
\* key, without properties, or with a property that is typed or not
ReadDocs ==
  {Doc(keys, IdOf(scheme, TokensOf(n)), properties) :
     keys \in {BaseKeys, <<"title", "type">>},
     scheme \in BOOLEAN, n \in 1..MaxTokens,
     properties \in {<<>>, PropertiesOf(<<Leaf(<<"type">>, "string")>>),
                     PropertiesOf(<<Leaf(<<"x-unknown">>, "")>>)}}

\* new JSONSchemaOpenIGC()
InitReads ==
  /\ NoRunAt("idle")
  /\ allDCs = <<>>
  /\ fnCall = NoCall
  /\ loader = NoLoad
  /\ resolver = NoResolve
  /\ translator = [igcObj |-> NewHandler, calls |-> 0]
  /\ session = NoSession

\* One call of readSchemaFromFile; an exception it throws ends the program
ReadSchemaFromFile ==
  /\ translator.igcObj # <<>>
  /\ translator.calls < MaxReads
  /\ ~translator.igcObj.thrown
  /\ \E jsSchema \in ReadDocs :
       translator' = [igcObj |-> readSchemaFromFile(translator.igcObj, jsSchema).ah,
                      calls |-> translator.calls + 1]
  /\ UNCHANGED <<runVars, allDCs, fnCall, loader, resolver, session>>

NextReads == ReadSchemaFromFile

SpecReads == InitReads /\ [][NextReads]_vars


(***************************************************************************)
(* setupJSONSchemaRelationships: the reverse reference resolver            *)
(***************************************************************************)
\* Most asset nodes the catalog search returns
MaxResults == 2

\* An object of the schema's properties map, with its keys
Definition(keys, properties) == [keys |-> keys, properties |-> properties]

\* The schema files: their properties maps
ResolverSchemas ==
  {PropertiesOf(<<Definition(<<>>, <<>>)>>),
   PropertiesOf(<<Definition(<<"x-ibm-igc-assigned-terms">>, <<>>),
                  Definition(<<"x-ibm-igc-rid">>, <<>>)>>),
   PropertiesOf(<<Definition(<<"properties">>,
                             PropertiesOf(<<Definition(<<"x-ibm-igc-rid">>, <<>>)>>))>>)}

\* $id and $ref of the asset nodes: paths of the schema, and one of no schema
NodePaths ==
  {<<"#", "definitions", "a">>, <<"#", "definitions", "b">>,
   <<"#", "definitions", "a", "properties", "a">>, <<"#", "definitions", "z">>}

\* An asset node without $ref has the $ref ""
NoRef == <<>>

ResultItems == [id : NodePaths, ref : NodePaths \cup {NoRef}]

\* _id of the j-th asset node
ItemRids == <<"x1", "x2", "x3", "x4">>

RECURSIVE cacheAllJSONDetails(_, _, _, _)
cacheAllJSONDetails(cache, definitions, parentPath, k) ==
  IF k > Len(definitions) THEN cache
  ELSE LET obj == definitions[k].obj
           id == parentPath \o <<definitions[k].title>>
           cached == Put(cache, id, [keys |-> obj.keys, rid |-> Undefined])
       IN cacheAllJSONDetails(
            IF Has(obj, "properties")
              THEN cacheAllJSONDetails(cached, obj.properties, id \o <<"properties">>, 1)
              ELSE cached,
            definitions, parentPath, k + 1)

\* hmJSONIdToDetails[id]._rid = rid throws when the cache has no entry for id
RECURSIVE mapIGCDetailsIntoCache(_, _, _)
mapIGCDetailsIntoCache(st, igcResults, k) ==
  IF st.thrown \/ k > Len(igcResults) THEN st
  ELSE mapIGCDetailsIntoCache(
         IF igcResults[k].id \in DOMAIN st.cache
           THEN [st EXCEPT !.cache[igcResults[k].id].rid = ItemRids[k]]
           ELSE [st EXCEPT !.thrown = TRUE],
         igcResults, k + 1)

\* The updates of one asset node: custom_Uses, assigned_to_terms,
\* custom_Implements
UpdatesOf(cache, item) ==
  (IF item.ref # NoRef THEN {[custom_Uses |-> cache[item.ref].rid]} ELSE {})
  \cup (IF item.id \in DOMAIN cache
          THEN {[relation |-> IF key = "x-ibm-igc-rid" THEN "custom_Implements"
                              ELSE "assigned_to_terms"] :
                  key \in {cache[item.id].keys[x] : x \in 1..Len(cache[item.id].keys)}
                          \cap {"x-ibm-igc-assigned-terms", "x-ibm-igc-rid"}}
          ELSE {})

\* The loop over allResults: findRelatedObjectsByRef reads
\* hmJSONIdToDetails[ref]._rid, which throws when the cache has no entry for ref
RECURSIVE ResolveLoop(_, _, _)
ResolveLoop(st, allResults, j) ==
  IF st.thrown \/ j > Len(allResults) THEN st
  ELSE ResolveLoop(
         IF allResults[j].ref # NoRef /\ allResults[j].ref \notin DOMAIN st.cache
           THEN [st EXCEPT !.thrown = TRUE]
           ELSE [st EXCEPT !.updates =
                   Append(@, [rid |-> ItemRids[j], item |-> j,
                              updates |-> UpdatesOf(st.cache, allResults[j])])],
         allResults, j + 1)

InitResolve ==
  /\ NoRunAt("idle")
  /\ allDCs = <<>>
  /\ fnCall = NoCall
  /\ loader = NoLoad
  /\ translator = NoReads
  /\ session = NoSession
  /\ \E schema \in ResolverSchemas, allResults \in SeqsUpTo(ResultItems, MaxResults),
        errAll \in BOOLEAN :
       resolver = [NoResolve EXCEPT !.schema = schema, !.allResults = allResults,
                                    !.errAll = errAll, !.pc = "search"]

\* The callback of getAllPages
ResolveAll ==
  /\ resolver.pc = "search"
  /\ IF resolver.errAll
       THEN resolver' = [resolver EXCEPT !.pc = "failed"]
       ELSE LET cached == cacheAllJSONDetails(EmptyMap, resolver.schema,
                                              <<"#", "definitions">>, 1)
                mapped == mapIGCDetailsIntoCache([cache |-> cached, updates |-> <<>>,
                                                  thrown |-> FALSE],
                                                 resolver.allResults, 1)
                st == ResolveLoop(mapped, resolver.allResults, 1)
            IN resolver' = [resolver EXCEPT
                              !.cache = st.cache,
                              !.updates = st.updates,
                              !.pc = IF st.thrown THEN "crashed" ELSE "updating"]
  /\ UNCHANGED <<runVars, allDCs, fnCall, loader, translator, session>>

\* handleAnyUpdateError: the catalog answers an update, with an error or not
UpdateAnswered ==
  /\ \E u \in 1..Len(resolver.updates) :
       /\ u \notin resolver.answered
       /\ resolver' = [resolver EXCEPT !.answered = @ \cup {u}]
  /\ UNCHANGED <<runVars, allDCs, fnCall, loader, translator, session>>

NextResolve == ResolveAll \/ UpdateAnswered

SpecResolve == InitResolve /\ [][NextResolve]_vars
(***************************************************************************)
(* Properties of the documents defineSchemaForTerm emits                   *)
(***************************************************************************)
TermOfRid(rid) == hmRidToObject[rid]
HasContainment(term) == Len(term.has_a) > 0
HasSubtypes(term) == Len(term.has_types) > 0

\* The cardinality marker of a cached term says "multiple"
MarkedMultiple(rid) ==
  /\ rid \in DOMAIN hmRidToObject
  /\ hmRidToObject[rid].cardinality # <<>>
  /\ toLowerCase(hmRidToObject[rid].cardinality[1])
       \in {<<"y", "e", "s">>, <<"t", "r", "u", "e">>, <<"y">>}

\* The property claimed for a contained term of the mapping
ClaimedProperty(rid) ==
  IF MarkedMultiple(rid)
    THEN [keys |-> {"type", "items"}, type |-> "array",
          ref |-> hmRidToObject[rid].jsonSchemaId, properties |-> EmptyMap]
    ELSE [keys |-> {"$ref"}, type |-> "",
          ref |-> hmRidToObject[rid].jsonSchemaId, properties |-> EmptyMap]

ContainedRids(term) == {term.has_a[k].id : k \in 1..Len(term.has_a)}

\* C1: the document of every term with a has_a edge has type object and one
\* property per contained term, named by the contained term's formatted
\* name: an array of $ref to the contained term's id when that term's
\* cardinality marker is yes, true or y in any letter case, a direct $ref to
\* it otherwise (contained terms absent from the mapping are left to C7)
C1_OnePropertyPerContainedTerm ==
  \A rid \in DOMAIN emitted :
    HasContainment(TermOfRid(rid)) =>
      /\ emitted[rid].type = "object"
      /\ hasOwnProperty(emitted[rid], "properties")
      /\ Cardinality(DOMAIN emitted[rid].properties)
           = Cardinality(ContainedRids(TermOfRid(rid)))
      /\ \A k \in 1..Len(TermOfRid(rid).has_a) :
           TermOfRid(rid).has_a[k].id \in DOMAIN hmRidToObject =>
             /\ formatNameForJSON(TermOfRid(rid).has_a[k].name)
                  \in DOMAIN emitted[rid].properties
             /\ emitted[rid].properties[formatNameForJSON(TermOfRid(rid).has_a[k].name)]
                  = ClaimedProperty(TermOfRid(rid).has_a[k].id)

\* C2: the type determination is a first-match decision: with a has_a edge
\* the document is an object with properties and no enum, also when the term
\* has has_types edges; an enum is emitted exactly when the term has
\* has_types edges and no has_a edge; a bare primitive (neither properties
\* nor enum) exactly when it has neither
C2_FirstMatchDecision ==
  \A rid \in DOMAIN emitted :
    /\ HasContainment(TermOfRid(rid)) =>
         /\ emitted[rid].type = "object"
         /\ hasOwnProperty(emitted[rid], "properties")
         /\ ~hasOwnProperty(emitted[rid], "enum")
    /\ hasOwnProperty(emitted[rid], "enum")
         <=> (HasSubtypes(TermOfRid(rid)) /\ ~HasContainment(TermOfRid(rid)))
    /\ (~hasOwnProperty(emitted[rid], "enum") /\ ~hasOwnProperty(emitted[rid], "properties"))
         <=> (~HasSubtypes(TermOfRid(rid)) /\ ~HasContainment(TermOfRid(rid)))

\* A term with both kinds of edges has been emitted
C2_Witness ==
  \E rid \in DOMAIN emitted :
    /\ HasContainment(TermOfRid(rid)) /\ HasSubtypes(TermOfRid(rid))
    /\ emitted[rid].type = "object"

\* The native type table: the JSON Schema type of a catalog type tag
NativeType(tag) ==
  CASE tag = "date" -> "string"
    [] tag = "timestamp" -> "string"
    [] tag = "numeric" -> "number"
    [] OTHER -> tag

\* C3: the document of a term with no has_a edge and at least one has_types
\* edge carries an enum holding the display name of every has_types child,
\* one entry per edge in the order of the edges, and a type that is the
\* term's cached data type mapped through the native type table, or string
\* when nothing is cached for the term
C3_EnumOfSubtypeNames ==
  \A rid \in DOMAIN emitted :
    (~HasContainment(TermOfRid(rid)) /\ HasSubtypes(TermOfRid(rid))) =>
      /\ hasOwnProperty(emitted[rid], "enum")
      /\ Len(emitted[rid].enum) = Len(TermOfRid(rid).has_types)
      /\ \A k \in 1..Len(TermOfRid(rid).has_types) :
           emitted[rid].enum[k] = TermOfRid(rid).has_types[k].name
      /\ hasOwnProperty(emitted[rid], "type")
      /\ emitted[rid].type = (IF rid \in DOMAIN hmTermToType
                                THEN NativeType(hmTermToType[rid]) ELSE "string")

\* An enum of two children, one of them with a name that formatting changes,
\* on a term with a cached type
C3_Witness ==
  \E rid \in DOMAIN emitted :
    /\ ~HasContainment(TermOfRid(rid))
    /\ Len(TermOfRid(rid).has_types) = 2
    /\ \E k \in 1..2 : formatNameForJSON(TermOfRid(rid).has_types[k].name)
                         # TermOfRid(rid).has_types[k].name
    /\ rid \in DOMAIN hmTermToType
    /\ Len(emitted[rid].enum) = 2

\* C4: the document of a term with no has_a edge, no has_types edge and no
\* entry in the data-class cache has type string and no format, no enum and
\* no properties
C4_BarePrimitiveDefaultsToString ==
  \A rid \in DOMAIN emitted :
    (/\ ~HasContainment(TermOfRid(rid))
     /\ ~HasSubtypes(TermOfRid(rid))
     /\ rid \notin DOMAIN hmTermToType) =>
      /\ hasOwnProperty(emitted[rid], "type")
      /\ emitted[rid].type = "string"
      /\ emitted[rid].keys \cap {"format", "enum", "properties"} = {}

C4_Witness ==
  \E rid \in DOMAIN emitted :
    /\ ~HasContainment(TermOfRid(rid))
    /\ ~HasSubtypes(TermOfRid(rid))
    /\ rid \notin DOMAIN hmTermToType
    /\ emitted[rid].type = "string"

\* C7: a has_a edge to an id absent from the term mapping does not stop the
\* compilation, and the emitted document contains no $ref for that edge
C7_NoRefForMissingTarget ==
  \A rid \in DOMAIN emitted :
    \A k \in 1..Len(TermOfRid(rid).has_a) :
      TermOfRid(rid).has_a[k].id \notin DOMAIN hmRidToObject =>
        \/ formatNameForJSON(TermOfRid(rid).has_a[k].name)
             \notin DOMAIN emitted[rid].properties
        \/ "$ref" \notin
             emitted[rid].properties[formatNameForJSON(TermOfRid(rid).has_a[k].name)].keys
\* C5: a call of defineSchemaForTerm on a term that is already processed
\* writes no schema document and no sidecar, and leaves the processed set,
\* the name-collision cache and the document store unchanged
C5_ProcessedTermIsSkipped ==
  [][(pc = "define" /\ aTerms[i] \in hmProcessedRIDs) =>
       /\ written' = NothingWritten
       /\ UNCHANGED <<hmProcessedRIDs, hmNameClashCheck, schemaFiles, sidecarFiles>>]_vars

\* Two calls have been made for one term, the second on the processed term
C5_Witness ==
  /\ pc = "define" /\ i = 3
  /\ aTerms[2] = aTerms[1]
  /\ aTerms[1] \in hmProcessedRIDs
  /\ written = NothingWritten

\* C6: of two distinct processed terms in different category paths whose
\* names format to the same name, the clash is logged and the store holds
\* two documents, each with its own id and each read back under that id
C6_ClashingTermsKeepTheirDocuments ==
  \A r \in hmProcessedRIDs : \A q \in hmProcessedRIDs \ {r} :
    (/\ formatNameForJSON(TermOfRid(r).name) = formatNameForJSON(TermOfRid(q).name)
     /\ TermOfRid(r).category_path # TermOfRid(q).category_path) =>
      /\ \E w \in console : w.kind = "nonUniqueName"
      /\ getSchemaFileFromId(TermOfRid(r).jsonSchemaId) \in DOMAIN schemaFiles
      /\ readSchema(schemaFiles, TermOfRid(r).jsonSchemaId).id = TermOfRid(r).jsonSchemaId
      /\ readSchema(schemaFiles, TermOfRid(q).jsonSchemaId).id = TermOfRid(q).jsonSchemaId

\* C8: linkTermsViaRelation is not called before defineSchemaForTerm has
\* completed for every term of the mapping that is not an association, so
\* the document of each of them is in the store when the linker reads
C8_LinkAfterEveryDefine ==
  pc = "link" =>
    \A rid \in DOMAIN hmRidToObject :
      ~IsRelation(TermOfRid(rid)) =>
        /\ rid \in hmProcessedRIDs
        /\ getSchemaFileFromId(TermOfRid(rid).jsonSchemaId) \in DOMAIN schemaFiles

\* A call of linkTermsViaRelation has written documents and another follows,
\* in a mapping with terms that are not associations
C8_Witness ==
  /\ pc = "link" /\ i > 1
  /\ written.schemas # {} /\ written.sidecars = {}
  /\ \E rid \in DOMAIN hmRidToObject : ~IsRelation(TermOfRid(rid))

(***************************************************************************)
(* Properties of the documents linkTermsViaRelation leaves                 *)
(***************************************************************************)
\* The processed terms the relation associates
AssociatedProcessed(relation) ==
  {relation.assigned_terms[k].id : k \in 1..Len(relation.assigned_terms)}
    \cap hmProcessedRIDs

StoredDocument(files, rid) == readSchema(files, TermOfRid(rid).jsonSchemaId)

\* The properties the relation's own stored document declares
DeclaredProperties(relation) ==
  IF relation.id \in hmProcessedRIDs
       /\ hasOwnProperty(StoredDocument(schemaFiles, relation.id), "properties")
    THEN StoredDocument(schemaFiles, relation.id).properties
    ELSE EmptyMap

HasNoProperty(doc, name) ==
  ~hasOwnProperty(doc, "properties") \/ name \notin DOMAIN doc.properties

HoldsRelationObject(doc, name) ==
  /\ doc.type = "object"
  /\ hasOwnProperty(doc, "properties")
  /\ name \in DOMAIN doc.properties
  /\ doc.properties[name].type = "object"

CopiesDeclared(doc, name, declared) ==
  /\ HoldsRelationObject(doc, name)
  /\ \A p \in DOMAIN declared :
       /\ p \in DOMAIN doc.properties[name].properties
       /\ doc.properties[name].properties[p] = declared[p]

\* C9: for a processed term A associated by R whose document has no
\* property named after R, a completed linkTermsViaRelation(R) leaves A's
\* stored document with type object and a property named after R, of type
\* object, whose properties contain a copy of every property R's own
\* document declared
C9_RelationPropertyCopiesDeclared ==
  [][(pc = "link" /\ pc' # "crashed") =>
       \A rid \in AssociatedProcessed(TermOfRid(aRelationTerms[i])) :
         HasNoProperty(StoredDocument(schemaFiles, rid),
                       formatNameForJSON(TermOfRid(aRelationTerms[i]).name)) =>
           CopiesDeclared(StoredDocument(schemaFiles', rid),
                          formatNameForJSON(TermOfRid(aRelationTerms[i]).name),
                          DeclaredProperties(TermOfRid(aRelationTerms[i])))]_vars

\* The is_a_type_of parents of the cached terms among S
ParentsOf(S) ==
  UNION {{TermOfRid(r).is_a_type_of[k].id : k \in 1..Len(TermOfRid(r).is_a_type_of)} :
           r \in S \cap DOMAIN hmRidToObject}

RECURSIVE AncestorClosure(_, _)
AncestorClosure(S, n) ==
  IF n = 0 THEN S ELSE AncestorClosure(S \cup ParentsOf(S), n - 1)

\* The ancestors of a term: what its is_a_type_of chains reach
AncestorsOf(rid) == AncestorClosure(ParentsOf({rid}), MaxChain)

\* The ids a property refers to, directly or as the items of an array
RefersTo(property, id) ==
  /\ property.keys \cap {"$ref", "items"} # {}
  /\ property.ref = id

\* properties[name].properties of a document, empty when it has none
RelationProperties(doc, name) ==
  IF HoldsRelationObject(doc, name) THEN doc.properties[name].properties ELSE EmptyMap

RefsEveryOtherAndNoAncestor(inner, rid, others) ==
  /\ \A o \in others \ ({rid} \cup AncestorsOf(rid)) :
       \E p \in DOMAIN inner : inner[p] = RefProperty(TermOfRid(o).jsonSchemaId)
  /\ \A o \in (({rid} \cup AncestorsOf(rid)) \cap DOMAIN hmRidToObject) :
       \A p \in DOMAIN inner : ~RefersTo(inner[p], TermOfRid(o).jsonSchemaId)

\* C10: after a completed linkTermsViaRelation(R) over the processed
\* associated terms T1..Tn, the document of each Ti holds in
\* properties[R].properties a $ref to every other Tj that is neither Ti nor
\* an ancestor of Ti, and no $ref to Ti itself or to an ancestor of Ti,
\* also when R declares properties of its own
C10_RefsToOthersNeverToSelf ==
  [][(pc = "link" /\ pc' # "crashed") =>
       \A rid \in AssociatedProcessed(TermOfRid(aRelationTerms[i])) :
         RefsEveryOtherAndNoAncestor(
           RelationProperties(StoredDocument(schemaFiles', rid),
                              formatNameForJSON(TermOfRid(aRelationTerms[i]).name)),
           rid, AssociatedProcessed(TermOfRid(aRelationTerms[i])))]_vars

\* C11: an association term (one with assigned_terms edges) is emitted as a
\* document of its own only if it also has has_a edges: after a run the
\* store holds no document for an association term without has_a edges
C11_AssociationWithoutContainmentNotEmitted ==
  \A rid \in DOMAIN hmRidToObject :
    (IsRelation(TermOfRid(rid)) /\ ~HasContainment(TermOfRid(rid))) =>
      /\ rid \notin DOMAIN emitted
      /\ pc = "done" =>
           \A f \in DOMAIN schemaFiles : schemaFiles[f].id # TermOfRid(rid).jsonSchemaId

\* The reorderings of a list
Reorderings(s) ==
  {[k \in 1..Len(s) |-> s[p[k]]] :
     p \in {q \in [1..Len(s) -> 1..Len(s)] : \A a, b \in 1..Len(s) : q[a] = q[b] => a = b}}

\* C12: for every list of candidate type tags and every reordering of it,
\* mergeTypes returns the common tag when all candidates are identical and
\* "string" otherwise; the result is always a type tag, and merging copies of
\* the result returns the same result
C12_MergeIsATagWhateverTheOrder ==
  (fnCall.fn = "mergeTypes" /\ Len(fnCall.results) >= 1) =>
    LET typeArray == fnCall.arg
        result == fnCall.results[1]
        tags == {typeArray[k] : k \in 1..Len(typeArray)}
    IN /\ result \in TypeTags
       /\ Cardinality(tags) = 1 => result \in tags
       /\ Cardinality(tags) > 1 => result = "string"
       /\ \A reordered \in Reorderings(typeArray) : mergeTypes(reordered) = result
       /\ Len(fnCall.results) = 2 => fnCall.results[2] = result

\* The type tags of the data classes of dcs assigned to rid, in the order of dcs
RECURSIVE TagsAssignedTo(_, _)
TagsAssignedTo(dcs, rid) ==
  IF dcs = <<>> THEN <<>>
  ELSE (IF \E j \in 1..Len(Head(dcs).assigned_to_terms) :
             Head(dcs).assigned_to_terms[j] = rid
          THEN Head(dcs).types ELSE <<>>)
       \o TagsAssignedTo(Tail(dcs), rid)

ClassesAssignedTo(rid) ==
  {k \in 1..Len(allDCs) : \E j \in 1..Len(allDCs[k].assigned_to_terms) :
                            allDCs[k].assigned_to_terms[j] = rid}

\* C13: after the data class pass, for every term assigned one or more data
\* classes the term-to-type cache holds mergeTypes of the tags of all the
\* classes assigned to it, whatever the order the classes are visited in, and
\* the pass completes without error when a term is assigned two or more
C13_CacheHoldsMergeOfAllClasses ==
  pc # "cache" =>
    /\ pc = "cached"
    /\ \A rid \in Rids :
         ClassesAssignedTo(rid) # {} =>
           /\ rid \in DOMAIN hmTermToType
           /\ \A dcs \in Reorderings(allDCs) :
                hmTermToType[rid] = mergeTypes(TagsAssignedTo(dcs, rid))

\* C14: setJSONSchemaTypeFromIGCType maps the tag date to type string with
\* format date, timestamp to type string with format date-time, numeric to
\* type number, and every other tag to a type equal to the tag, with no format
C14_NativeTypeTable ==
  (fnCall.fn = "setJSONSchemaTypeFromIGCType" /\ Len(fnCall.results) = 1) =>
    LET type == fnCall.arg[1]
        schema == fnCall.results[1]
    IN /\ "type" \in schema.keys
       /\ type = "date" =>
            schema.type = "string" /\ "format" \in schema.keys /\ schema.format = "date"
       /\ type = "timestamp" =>
            schema.type = "string" /\ "format" \in schema.keys
              /\ schema.format = "date-time"
       /\ type = "numeric" => schema.type = "number" /\ "format" \notin schema.keys
       /\ type \notin {"date", "timestamp", "numeric"} =>
            schema.type = type /\ "format" \notin schema.keys
       /\ schema.keys \subseteq {"type", "format"}

C14_Witness ==
  /\ fnCall.fn = "setJSONSchemaTypeFromIGCType"
  /\ fnCall.arg = <<"numeric">>
  /\ Len(fnCall.results) = 1
  /\ fnCall.results[1].type = "number"

\* C15: formatNameForJSON is deterministic and idempotent for every name,
\* names with '/', '(' or ')' included: formatting the result again returns
\* the result, and the result holds no '/', '(' or ')'
C15_FormatNameIdempotent ==
  (fnCall.fn = "formatNameForJSON" /\ Len(fnCall.results) >= 1) =>
    LET formatted == fnCall.results[1] IN
    /\ \A k \in 1..Len(formatted) : formatted[k] \notin {"/", "(", ")"}
    /\ formatNameForJSON(fnCall.arg) = formatted
    /\ Len(fnCall.results) = 2 => fnCall.results[2] = formatted

(***************************************************************************)
(* Properties of the asset nodes readSchemaFromFile emits                  *)
(***************************************************************************)
\* The .json files of the directory that have been read, by their position
ReadFiles ==
  {k \in 1..Len(loader.read) : loader.aFiles[k].ext = ".json"}

AssetsOf(k) == loader.read[k].igcObj.assets

\* C16: for a schema id of tokens t1/.../tn behind its scheme, the read emits
\* one Namespace node for t1 and one Path node for each of t2..t(n-1), each
\* contained in the node of the token before it, and the Schema node as a
\* child of the deepest of them; the import action is handed the ids of the
\* namespace and path nodes, in that order
C16_HierarchyFollowsTheIdTokens ==
  \A k \in ReadFiles :
    Has(loader.aFiles[k].doc, "id") =>
      LET tokens == loader.aFiles[k].idTokens
          n == Len(tokens)
          assets == AssetsOf(k)
      IN /\ Len(assets) >= n
         /\ \A j \in 1..(n - 1) :
              /\ assets[j].name = tokens[j]
              /\ assets[j].assetType = IF j = 1 THEN "JSNamespace" ELSE "JSPath"
              /\ j = 1 => assets[j].parentType = ""
              /\ j > 1 => /\ assets[j].parentId = assets[j - 1].id
                          /\ assets[j].parentType = assets[j - 1].assetType
         /\ \A j \in n..Len(assets) : assets[j].assetType \notin {"JSNamespace", "JSPath"}
         /\ assets[n].assetType = "JSchema"
         /\ n = 1 => assets[n].parentType = ""
         /\ n > 1 => /\ assets[n].parentId = assets[n - 1].id
                     /\ assets[n].parentType = assets[n - 1].assetType
         /\ loader.read[k].igcObj.imports =
              <<[ids |-> <<assets[n].id>>, partial |-> [j \in 1..(n - 1) |-> assets[j].id]]>>

\* The entry of a properties map under a title
EntryOf(properties, title) ==
  properties[CHOOSE k \in 1..Len(properties) : properties[k].title = title].obj

\* The property object, or items object, a path below '#' leads to
RECURSIVE ObjectAt(_, _)
ObjectAt(container, path) ==
  IF path = <<>> THEN container
  ELSE IF path[1] = "properties"
    THEN ObjectAt(EntryOf(container.properties, path[2]), SubSeq(path, 3, Len(path)))
  ELSE ObjectAt(container.items, Tail(path))

\* The paths _translatePropertyKeys was called for while file k was read
PropertyPathsOf(k) ==
  {path \in DOMAIN loader.read[k].igcObj.identities :
     path[1] = "#" /\ path[Len(path)] # "items"}

\* The nodes emitted for a path while file k was read
NodesAt(k, path) ==
  {j \in 1..Len(AssetsOf(k)) : AssetsOf(k)[j].id = loader.read[k].igcObj.identities[path]}

\* C17: for every property, _translatePropertyKeys emits a node of asset type
\* JSObject when the declared type is object, JSArray when it is array,
\* JSPrimitive when it is string, integer, number, boolean or null, and
\* JSObject when no type is declared but a $ref is present
C17_AssetTypeByDeclaredType ==
  \A k \in ReadFiles : \A path \in PropertyPathsOf(k) :
    LET obj == ObjectAt(loader.aFiles[k].doc, Tail(path))
        expected ==
          IF Has(obj, "type")
            THEN (IF obj.type = "object" THEN "JSObject"
                  ELSE IF obj.type = "array" THEN "JSArray"
                  ELSE IF obj.type \in {"string", "integer", "number", "boolean", "null"}
                    THEN "JSPrimitive"
                  ELSE "")
          ELSE IF Has(obj, "$ref") THEN "JSObject"
          ELSE ""
    IN expected # "" =>
         /\ Cardinality(NodesAt(k, path)) = 1
         /\ \A j \in NodesAt(k, path) : AssetsOf(k)[j].assetType = expected

C17_Witness ==
  \E k \in ReadFiles :
    /\ \E path \in PropertyPathsOf(k) :
         /\ Has(ObjectAt(loader.aFiles[k].doc, Tail(path)), "$ref")
         /\ ~Has(ObjectAt(loader.aFiles[k].doc, Tail(path)), "type")
         /\ \E j \in NodesAt(k, path) : AssetsOf(k)[j].assetType = "JSObject"
    /\ \E path \in PropertyPathsOf(k) :
         /\ ObjectAt(loader.aFiles[k].doc, Tail(path)).type = "array"
         /\ \E j \in NodesAt(k, path) : AssetsOf(k)[j].assetType = "JSArray"

\* The keys of a property object that _translatePropertyKeys names
NamedKeys == {"description", "properties", "title", "items", "example", "xml", "$ref", "type"}

\* The keys of obj that are no known attribute of a node of type assetType
UnknownKeysOf(obj, assetType) ==
  {obj.keys[j] : j \in 1..Len(obj.keys)}
  \ (NamedKeys
     \cup (IF HasKnownIGCAttributes(assetType)
             THEN {key \in {obj.keys[j] : j \in 1..Len(obj.keys)} :
                     ("$" \o key) \in getKnownIGCAttributes(assetType)}
             ELSE {}))

\* C18: for every property object, whatever its type value and also when it
\* declares neither a type nor a $ref, a key that is no known attribute is
\* logged and skipped: _translatePropertyKeys does not throw, the node is
\* still emitted with its known attributes under the '$' prefix, and the
\* remaining properties of the document are still translated
C18_UnknownKeyLoggedAndSkipped ==
  \A k \in ReadFiles :
    LET doc == loader.aFiles[k].doc
        igcObj == loader.read[k].igcObj
    IN (Has(doc, "id") /\ Has(doc, "properties")) =>
         /\ ~igcObj.thrown
         /\ \A j \in 1..Len(doc.properties) :
              <<"#", "properties", doc.properties[j].title>> \in PropertyPathsOf(k)
         /\ \A path \in PropertyPathsOf(k) :
              LET obj == ObjectAt(doc, Tail(path)) IN
              /\ Cardinality(NodesAt(k, path)) = 1
              /\ \A j \in NodesAt(k, path) :
                   LET node == AssetsOf(k)[j] IN
                   /\ \A key \in UnknownKeysOf(obj, node.assetType) :
                        /\ [unhandled |-> key, of |-> path] \in igcObj.log
                        /\ ("$" \o key) \notin DOMAIN node.attrs
                   /\ \A key \in {obj.keys[x] : x \in 1..Len(obj.keys)}
                                   \ (NamedKeys \cup UnknownKeysOf(obj, node.assetType)) :
                        /\ ("$" \o key) \in DOMAIN node.attrs
                        /\ node.attrs["$" \o key] = ValueOf(obj, key)

\* The schema-level keys readSchemaFromFile names
SchemaLevelKeys == {"$schema", "id", "description", "title", "type", "enum", "properties"}

UnrecognisedKeysOf(doc) == {doc.keys[j] : j \in 1..Len(doc.keys)} \ SchemaLevelKeys

\* C19: a schema file with an unrecognised schema-level key only produces an
\* advisory: the key is reported, processing continues, and the loader still
\* asks the catalog to create the assets of that file
C19_UnrecognisedSchemaKeyIsAdvisory ==
  \A k \in ReadFiles :
    (UnrecognisedKeysOf(loader.aFiles[k].doc) # {} /\ ~loader.read[k].igcObj.thrown) =>
      /\ \A key \in UnrecognisedKeysOf(loader.aFiles[k].doc) :
           \E j \in 1..Len(loader.read[k].aWarns) : loader.read[k].aWarns[j] = key
      /\ loader.read[k].outcome = "requested"
      /\ k \in loader.pending \cup loader.created \cup loader.rejected

\* Exactly one node was emitted for path while file k was read, and it is
\* contained in node parent
OneNodeContainedIn(k, path, parent) ==
  /\ path \in DOMAIN loader.read[k].igcObj.identities
  /\ Cardinality(NodesAt(k, path)) = 1
  /\ \A j \in NodesAt(k, path) :
       /\ AssetsOf(k)[j].parentId = parent.id
       /\ AssetsOf(k)[j].parentType = parent.assetType

\* C20: every entry of a property's nested properties map, and the items of
\* every property that has items, produces exactly one asset node contained
\* in the node of the enclosing property; when the items entry is an object,
\* each entry of its own properties map produces exactly one node contained
\* in the items node
C20_NestedEntriesAndItemsAreContained ==
  \A k \in ReadFiles : \A path \in PropertyPathsOf(k) : \A j \in NodesAt(k, path) :
    LET obj == ObjectAt(loader.aFiles[k].doc, Tail(path))
        node == AssetsOf(k)[j]
    IN /\ Has(obj, "properties") =>
            \A e \in 1..Len(obj.properties) :
              OneNodeContainedIn(k, path \o <<"properties", obj.properties[e].title>>, node)
       /\ Has(obj, "items") =>
            /\ OneNodeContainedIn(k, path \o <<"items">>, node)
            /\ \A x \in NodesAt(k, path \o <<"items">>) :
                 (AssetsOf(k)[x].assetType = "JSObject" /\ Has(obj.items, "properties")) =>
                   \A e \in 1..Len(obj.items.properties) :
                     OneNodeContainedIn(
                       k, path \o <<"items", "properties", obj.items.properties[e].title>>,
                       AssetsOf(k)[x])

\* C21: a description longer than 255 characters is stored as a short form
\* of at most 254 characters that ends in an ellipsis, plus a long form that
\* holds the full text; a description of 255 characters or fewer is stored
\* unsplit as the short form only, with no long form
StoredAsClaimed(attrs, description) ==
  /\ "short_description" \in DOMAIN attrs
  /\ description > 255 =>
       /\ attrs["short_description"].cut
       /\ attrs["short_description"].chars <= 254
       /\ "long_description" \in DOMAIN attrs
       /\ attrs["long_description"] = [chars |-> description, cut |-> FALSE]
  /\ description <= 255 =>
       /\ attrs["short_description"] = [chars |-> description, cut |-> FALSE]
       /\ "long_description" \notin DOMAIN attrs

C21_DescriptionSplitAbove255 ==
  \A k \in ReadFiles :
    /\ \A j \in 1..Len(AssetsOf(k)) :
         (AssetsOf(k)[j].assetType = "JSchema" /\ Has(loader.aFiles[k].doc, "description"))
           => StoredAsClaimed(AssetsOf(k)[j].attrs, loader.aFiles[k].doc.description)
    /\ \A path \in PropertyPathsOf(k) : \A j \in NodesAt(k, path) :
         Has(ObjectAt(loader.aFiles[k].doc, Tail(path)), "description")
           => StoredAsClaimed(AssetsOf(k)[j].attrs,
                              ObjectAt(loader.aFiles[k].doc, Tail(path)).description)

C21_Witness ==
  \E k \in ReadFiles :
    /\ loader.aFiles[k].doc.description = 255
    /\ \E j \in 1..Len(AssetsOf(k)) :
         /\ AssetsOf(k)[j].assetType = "JSchema"
         /\ "long_description" \notin DOMAIN AssetsOf(k)[j].attrs
    /\ \E path \in PropertyPathsOf(k) : \E j \in NodesAt(k, path) :
         /\ ObjectAt(loader.aFiles[k].doc, Tail(path)).description = 256
         /\ "long_description" \in DOMAIN AssetsOf(k)[j].attrs
         /\ AssetsOf(k)[j].attrs["short_description"].chars = 254

(***************************************************************************)
(* Properties of the reverse reference resolver                            *)
(***************************************************************************)
\* C22: when an asset node's $ref, or its own $id, names a path that has no
\* entry in the cache of schema details, only that node's resolution is
\* skipped or fails: the updates of all the other asset nodes are still
\* issued and the run does not abort
C22_MissingTargetFailsOneResolution ==
  (resolver.pc \notin {"none", "search", "failed"}) =>
    /\ resolver.pc # "crashed"
    /\ \A j \in 1..Len(resolver.allResults) :
         (/\ resolver.allResults[j].id \in DOMAIN resolver.cache
          /\ resolver.allResults[j].ref \in DOMAIN resolver.cache \cup {NoRef})
           => \E u \in 1..Len(resolver.updates) : resolver.updates[u].item = j

(***************************************************************************)
(* Properties of the two passes of the loader                              *)
(***************************************************************************)
\* C23: in every interleaving of the catalog's answers, no search or update
\* of a sidecar (second pass) is issued before the asset creation (first
\* pass) of every .json file of the directory has completed
C23_SecondPassAfterFirstPass ==
  loader.pending # {} =>
    loader.searching \cup loader.updating \cup loader.updated \cup loader.updateFailed = {}

\* The files whose createBundleAssets was answered with a failure
CreationFailures == {k \in loader.rejected : loader.read[k].outcome = "requested"}

\* C24: when the asset creation or the relationship update of one file fails,
\* the file is skipped and the run proceeds: the creation and the update of
\* every other file is still performed, and the run eventually reaches its
\* final step, closing the catalog session
C24_FailureOfOneFileDoesNotStopTheRun ==
  (CreationFailures # {} \/ loader.updateFailed # {})
    ~> (/\ loader.chain = "closed"
        /\ loader.pending = {} /\ loader.searching = {} /\ loader.updating = {})

\* C26: every asset node a read emits, other than the root, has one parent
\* containment edge, which names a node emitted earlier in the same read
\* whose asset type is the parent type the edge declares, whatever the number
\* of tokens of the schema id
C26_ParentEdgeNamesAnEarlierNodeOfItsType ==
  \A k \in ReadFiles :
    LET assets == AssetsOf(k) IN
    \A j \in 1..Len(assets) :
      IF j = 1
        THEN assets[j].parentId = 0
        ELSE /\ assets[j].parentId # 0
             /\ Cardinality({e \in 1..(j - 1) : assets[e].id = assets[j].parentId}) = 1
             /\ \A e \in 1..(j - 1) :
                  assets[e].id = assets[j].parentId =>
                    assets[e].assetType = assets[j].parentType

(***************************************************************************)
(* Properties of the identifiers of one JSONSchemaOpenIGC instance         *)
(***************************************************************************)
\* The ids of the asset nodes the instance has emitted, in order
IdsOfNodes == [k \in 1..Len(translator.igcObj.assets) |-> translator.igcObj.assets[k].id]

\* C25: after any sequence of readSchemaFromFile calls on one instance, every
\* generated identifier belongs to exactly one asset node, every distinct
\* identity has had exactly one identifier generated for it, and the
\* identity-to-id mapping returns its identifier for every node emitted so far
C25_OneIdentifierPerIdentity ==
  translator.calls > 0 =>
    LET ah == translator.igcObj IN
    /\ \A id \in 1..ah.idGen :
         Cardinality({k \in 1..Len(ah.assets) : IdsOfNodes[k] = id}) = 1
    /\ Cardinality(DOMAIN ah.identities) = ah.idGen
    /\ \A k \in 1..Len(ah.assets) :
         \E identity \in DOMAIN ah.identities : ah.identities[identity] = IdsOfNodes[k]

(***************************************************************************)
(* Properties of the walk up the is_a_type_of chains                       *)
(***************************************************************************)
\* C27: getAncestralTerms terminates for every term mapping, also one whose
\* is_a_type_of edges form a cycle or a self-loop, and returns every term
\* that the given term reaches through is_a_type_of edges
C27_AncestralWalkTerminates ==
  pc = "link" =>
    \A rid \in DOMAIN hmRidToObject :
      LET walk == getAncestralTerms(getTermFromCache(rid), 1) IN
      /\ ~walk.overflow
      /\ {walk.terms[k] : k \in 1..Len(walk.terms)} = AncestorsOf(rid)

(***************************************************************************)
(* Properties of the order of the two passes of a generation run           *)
(***************************************************************************)
\* C28: in every interleaving of the catalog's answers, the data-class pass
\* has finished populating the term-to-type cache before defineSchemaForTerm
\* reads it for any term
C28_CacheFilledBeforeTermsAreDefined ==
  (session.dataClasses # "none" /\ pc \in {"define", "link", "done", "crashed"})
     => session.dataClasses = "resolved"

(***************************************************************************)
(* Properties of a second run of the relationship pass                     *)
(***************************************************************************)
\* C29: running linkTermsViaRelation a second time for the same association
\* leaves every document of the store equal to what it was after the first
\* run
C29_LinkingIsIdempotent ==
  [][LinkAgain => schemaFiles' = schemaFiles]_vars

\* A second run has met, in the document of every associated term, the
\* association property the first run gave it, one of them with a $ref, and
\* has skipped it; each associated term has a file of its own
C29_Witness ==
  /\ pc = "done"
  /\ \E k \in 1..Len(aRelationTerms) :
       LET relation == hmRidToObject[aRelationTerms[k]]
           relnName == formatNameForJSON(relation.name)
           aRids == RelatedRids(relation.assigned_terms, 1, <<>>)
           schUpdate(j) == readSchema(schemaFiles, getTermRefFromCache(aRids[j]))
       IN /\ Len(aRids) > 1
          /\ \A j, n \in 1..Len(aRids) :
               j # n => getSchemaFileFromId(getTermRefFromCache(aRids[j]))
                          # getSchemaFileFromId(getTermRefFromCache(aRids[n]))
          /\ \A j \in 1..Len(aRids) :
               /\ [kind |-> "alreadyHasProperty", rid |-> aRids[j], name |-> relnName]
                    \in console
               /\ relnName \in DOMAIN schUpdate(j).properties
               /\ schUpdate(j).properties[relnName].type = "object"
          /\ \E j \in 1..Len(aRids) :
               \E o \in DOMAIN schUpdate(j).properties[relnName].properties :
                 schUpdate(j).properties[relnName].properties[o].keys = {"$ref"}

(***************************************************************************)
(* What a run of linkTermsViaRelation leaves alone                         *)
(***************************************************************************)
\* The stored document of term rid
DocumentOf(files, rid) == readSchema(files, getTermRefFromCache(rid))

\* after is before but for the property name, and for type and properties
\* when before is not an object
SameButProperty(before, after, name) ==
  /\ after.id = before.id
  /\ after.title = before.title
  /\ after.description = before.description
  /\ \A p \in DOMAIN before.properties :
       p \in DOMAIN after.properties /\ after.properties[p] = before.properties[p]
  /\ DOMAIN after.properties \subseteq DOMAIN before.properties \cup {name}
  /\ hasOwnProperty(before, "properties") => after.type = before.type
  /\ after.format = before.format /\ after.enum = before.enum

\* C30: linkTermsViaRelation changes, in the stored document of an associated
\* term, only the property named after the association (and type and
\* properties when it forces the document into an object); the document of a
\* term the association does not associate is not written
C30_LinkingChangesOnlyTheAssociationProperty ==
  [][ProcessRelation =>
       LET relation == hmRidToObject[aRelationTerms[i]]
           relnName == formatNameForJSON(relation.name)
           aRids == RelatedRids(relation.assigned_terms, 1, <<>>)
       IN \A rid \in hmProcessedRIDs :
            IF InSeq(rid, aRids)
              THEN SameButProperty(DocumentOf(schemaFiles, rid),
                                   DocumentOf(schemaFiles', rid), relnName)
              ELSE /\ getSchemaFileFromId(getTermRefFromCache(rid)) \notin written'.schemas
                   /\ DocumentOf(schemaFiles', rid) = DocumentOf(schemaFiles, rid)]_vars

=============================================================================
